---- MODULE Spec2Model ----
(***************************************************************************)
(* A model of the scoring / indicator engine of the-frontier:              *)
(*   - scoring.js      calculateBandarScore (flat additive variant)        *)
(*   - scoring-v3.js   calculateBandarScore (priority-stack variant)       *)
(*   - backtest.js     calculateHistoricalScore and its signal mapping     *)
(*   - fix_server.cjs  analyzeRedFlags                                     *)
(*   - server.js       generateBandarIndicators and its detectors          *)
(* Money is counted in units of one million IDR, volume in lots, prices in *)
(* IDR, percentages in tenths of a percent where the code compares them    *)
(* with fractional thresholds.                                             *)
(***************************************************************************)
EXTENDS Integers, Sequences, FiniteSets, TLC

VARIABLES
  mode,        \* which function of the repository this behaviour runs
  pc,          \* position inside that function
  inp,         \* the arguments the function was called with
  loc,         \* the function's local values computed so far
  score,       \* the running `score` local
  factors,     \* the `factors` array (factor strings, in push order)
  convictionFactors, \* scoring-v3.js `convictionFactors`
  out          \* the returned value (NoValue until the function returns)

vars == <<mode, pc, inp, loc, score, factors, convictionFactors, out>>

NoValue == [none |-> TRUE]

\* the function has returned
Returned == pc = "done"

\* the local `name` has been assigned
Has(name) == name \in DOMAIN loc

-----------------------------------------------------------------------------
(* Bounds of the model *)

\* at most this many brokers in a brokerSummary / brokerData list
MaxBrokers == 2
\* inputs are restricted to those in which at most this many factors fire
MaxFactors == 3

-----------------------------------------------------------------------------
(* Arithmetic helpers: JavaScript numbers that are not integers are kept   *)
(* as fractions n/d with d > 0, or as one of the IEEE special values.      *)

RECURSIVE GCD(_, _)
GCD(a, b) == IF b = 0 THEN a ELSE GCD(b, a % b)

Abs(x) == IF x < 0 THEN -x ELSE x
Min(a, b) == IF a <= b THEN a ELSE b
Max(a, b) == IF a >= b THEN a ELSE b

\* the number n/d for d > 0, in lowest terms
Frac(n, d) ==
  LET g == GCD(Abs(n), d)
  IN  [kind |-> "num", n |-> n \div g, d |-> d \div g]

\* JavaScript x / y for numbers x = xn/xd (finite) and y = yn/yd (finite)
JsDiv(x, y) ==
  IF y.n = 0
  THEN IF x.n = 0 THEN [kind |-> "NaN", n |-> 0, d |-> 1]
       ELSE IF x.n > 0 THEN [kind |-> "+Inf", n |-> 0, d |-> 1]
       ELSE [kind |-> "-Inf", n |-> 0, d |-> 1]
  ELSE IF y.n > 0 THEN Frac(x.n * y.d, x.d * y.n)
       ELSE Frac(-(x.n * y.d), x.d * (-y.n))

IsFinite(x) == x.kind = "num"

\* JavaScript x < k and x > k for an integer k (false for NaN)
JsLess(x, k) ==
  \/ x.kind = "-Inf"
  \/ x.kind = "num" /\ x.n < k * x.d
JsGreater(x, k) ==
  \/ x.kind = "+Inf"
  \/ x.kind = "num" /\ x.n > k * x.d

\* Math.floor of a finite number
JsFloor(x) == x.n \div x.d

RECURSIVE SumSeq(_)
SumSeq(s) == IF s = <<>> THEN 0 ELSE Head(s) + SumSeq(Tail(s))

\* s.slice(0, k)
Take(s, k) == SubSeq(s, 1, Min(k, Len(s)))

\* Array.prototype.sort with comparator (a, b) => key(b) - key(a): a stable
\* sort by descending key (keys[i] is the key of s[i])
RECURSIVE InsertDesc(_, _)
InsertDesc(sorted, e) ==
  IF sorted = <<>> THEN <<e>>
  ELSE IF Head(sorted).key >= e.key
       THEN <<Head(sorted)>> \o InsertDesc(Tail(sorted), e)
       ELSE <<e>> \o sorted

RECURSIVE SortDescKeyed(_)
SortDescKeyed(s) ==
  IF s = <<>> THEN <<>>
  ELSE InsertDesc(SortDescKeyed(SubSeq(s, 1, Len(s) - 1)), s[Len(s)])

-----------------------------------------------------------------------------
(* Program constants *)

\* 1 lot = 100 shares
LOT_SIZE == 100
\* one million IDR, the unit money is counted in
MoneyPerUnit == 1000000
\* 1000000000 IDR (foreignNetBillions > 1) in money units
Billion == 1000
\* 50000000000 IDR in money units
Top3Threshold == 50000

-----------------------------------------------------------------------------
(* scoring.js : calculateBandarScore(stockData, indicators)                *)

\* one element of indicators.brokerSummary as server.js builds it
Broker(code, buyVolume, buyValue, sellVolume, sellValue) ==
  [code |-> code, buyVolume |-> buyVolume, buyValue |-> buyValue,
   sellVolume |-> sellVolume, sellValue |-> sellValue,
   netVolume |-> buyVolume - sellVolume, netValue |-> buyValue - sellValue]

RECURSIVE TotalBuyValue(_)
TotalBuyValue(bs) ==
  IF bs = <<>> THEN 0
  ELSE (IF Head(bs).buyVolume > 0 THEN Head(bs).buyValue ELSE 0) + TotalBuyValue(Tail(bs))

RECURSIVE TotalBuyLots(_)
TotalBuyLots(bs) ==
  IF bs = <<>> THEN 0
  ELSE (IF Head(bs).buyVolume > 0 THEN Head(bs).buyVolume ELSE 0) + TotalBuyLots(Tail(bs))

\* an average price per lot: the divisor without the lot size
PricePerShare_PerLot(value, lots) ==
  LET f == Frac(value, lots)
  IN  Frac(f.n * MoneyPerUnit, f.d)

\* value (money units) / (lots * 100), in IDR per share
PricePerShare(value, lots) ==
  LET f == Frac(value, lots)
  IN  Frac(f.n * MoneyPerUnit, f.d * LOT_SIZE)

\* const avgBrokerCost = totalBuyLots > 0 ? totalBuyValue / (totalBuyLots * 100) : currentPrice
avgBrokerCost(brokerSummary, currentPrice) ==
  IF TotalBuyLots(brokerSummary) > 0
  THEN PricePerShare(TotalBuyValue(brokerSummary), TotalBuyLots(brokerSummary))
  ELSE Frac(currentPrice, 1)

\* x * k for a JavaScript number x and a positive integer k
JsTimes(x, k) == IF x.kind = "num" THEN Frac(x.n * k, x.d) ELSE x

\* const premiumToCost = ((currentPrice - avgBrokerCost) / avgBrokerCost) * 100
premiumToCost(currentPrice, cost) ==
  JsTimes(JsDiv(Frac(currentPrice * cost.d - cost.n, cost.d), cost), 100)

\* [...brokerSummary].sort((a, b) => Math.abs(b.netValue) - Math.abs(a.netValue))
sortedByNet(brokerSummary) ==
  LET keyed == [i \in 1..Len(brokerSummary) |->
                  [key |-> Abs(brokerSummary[i].netValue), val |-> brokerSummary[i]]]
      sorted == SortDescKeyed(keyed)
  IN  [i \in 1..Len(sorted) |-> sorted[i].val]

RECURSIVE SumNetValue(_)
SumNetValue(bs) == IF bs = <<>> THEN 0 ELSE Head(bs).netValue + SumNetValue(Tail(bs))

\* top3Brokers.reduce((sum, b) => sum + (b.netValue || 0), 0)
top3NetValue(brokerSummary) == SumNetValue(Take(sortedByNet(brokerSummary), 3))

\* (volumeAnalysis.totalVolume || 0) / (volumeAnalysis.averageVolume || 1) > k
VolumeRatioAbove(va, k) ==
  va.totalVolume > k * (IF va.averageVolume = 0 THEN 1 ELSE va.averageVolume)

\* a score change that forgets its factor string
Adjust_Silent(sf, d, f) == [score |-> sf.score + d, factors |-> sf.factors]

\* score += d; factors.push(f)
Adjust(sf, d, f) == [score |-> sf.score + d, factors |-> Append(sf.factors, f)]

\* a contrarian reading: heavy foreign selling earns the bonus
ForeignFlowImpact_Contrarian(sf, foreignNetValue) ==
  IF foreignNetValue < -Billion THEN Adjust(sf, 15, "Foreign buying >1B")
  ELSE IF foreignNetValue > Billion THEN Adjust(sf, -15, "Foreign selling >1B")
  ELSE sf

\* lines 85-92
ForeignFlowImpact(sf, foreignNetValue) ==
  IF foreignNetValue > Billion THEN Adjust(sf, 15, "Foreign buying >1B")
  ELSE IF foreignNetValue < -Billion THEN Adjust(sf, -15, "Foreign selling >1B")
  ELSE sf

\* lines 94-101
TopBrokerAlignment(sf, top3Net) ==
  IF top3Net > Top3Threshold THEN Adjust(sf, 10, "Top brokers accumulating")
  ELSE IF top3Net < -Top3Threshold THEN Adjust(sf, -10, "Top brokers distributing")
  ELSE sf

\* lines 103-107
CostBasis(sf, premium) ==
  IF JsLess(premium, -5) THEN Adjust(sf, 5, "Below broker cost") ELSE sf

\* Math.abs of a JavaScript number
JsAbs(x) ==
  IF x.kind = "num" THEN Frac(Abs(x.n), x.d)
  ELSE IF x.kind = "NaN" THEN x
  ELSE [kind |-> "+Inf", n |-> 0, d |-> 1]

\* lines 47-53: the zone lines pushed onto analysis after the premium line
CostBasisLabels(premium) ==
  IF JsLess(JsAbs(premium), 5) THEN <<"FAIR VALUE">>
  ELSE IF JsGreater(premium, 20) THEN <<"OVERVALUED">>
  ELSE IF JsLess(premium, -10) THEN <<"VALUE">>
  ELSE <<>>

\* lines 109-113
VolumeConfirmation(sf, va, priceChange) ==
  IF VolumeRatioAbove(va, 2) /\ priceChange > 0
  THEN Adjust(sf, 5, "Volume spike + price up") ELSE sf

\* lines 115-125
VolumeSpikeDetection(sf, vs) ==
  IF vs.detected
  THEN IF vs.signal = "STEALTH_ACCUMULATION" THEN Adjust(sf, 12, "Stealth accumulation: volume spike")
       ELSE IF vs.signal = "BREAKOUT" THEN Adjust(sf, 8, "Volume breakout")
       ELSE sf
  ELSE sf

\* lines 127-137
VolumeDryUpDetection(sf, vdu) ==
  IF vdu.detected
  THEN IF vdu.signal = "VDU_BREAKOUT" THEN Adjust(sf, 15, "VDU Breakout")
       ELSE IF vdu.signal = "VDU_ACCUMULATING" THEN Adjust(sf, 8, "VDU Phase")
       ELSE sf
  ELSE sf

\* lines 139-152
BidAskImbalanceDetection(sf, bai) ==
  IF bai.detected
  THEN IF bai.signal = "STEALTH_ACCUMULATION" THEN Adjust(sf, 12, "Stealth accumulation: bid/ask")
       ELSE IF bai.signal = "HIDDEN_SUPPORT" THEN Adjust(sf, 8, "Hidden support")
       ELSE IF bai.signal = "DISTRIBUTION" THEN Adjust(sf, -12, "Distribution detected")
       ELSE sf
  ELSE sf

\* lines 154-173
ForeignStreakDetection(sf, fs) ==
  IF fs.detected
  THEN IF fs.signal = "STRONG_BULLISH" THEN Adjust(sf, 18, "Strong foreign streak")
       ELSE IF fs.signal = "BULLISH" THEN Adjust(sf, 12, "Foreign buying streak")
       ELSE IF fs.signal = "MODERATE_BULLISH" THEN Adjust(sf, 6, "Foreign accumulation")
       ELSE IF fs.signal = "STRONG_BEARISH" THEN Adjust(sf, -18, "Foreign selling streak (strong)")
       ELSE IF fs.signal = "BEARISH" THEN Adjust(sf, -12, "Foreign selling streak")
       ELSE sf
  ELSE sf

\* lines 175-188
BrokerConcentrationDetection(sf, bc) ==
  IF bc.detected
  THEN IF bc.signal = "HIGH_CONCENTRATION" THEN Adjust(sf, 15, "Bandar concentration")
       ELSE IF bc.signal = "COORDINATED_BUYING" THEN Adjust(sf, 12, "Coordinated buying")
       ELSE IF bc.signal = "MODERATE_CONCENTRATION" THEN Adjust(sf, 6, "Broker accumulation detected")
       ELSE sf
  ELSE sf

\* lines 193-197; pa is indicators.priceAction, a record of the five pattern
\* records (every `detected` FALSE when priceAction is missing)
PriceCompressionFactor(sf, pa) ==
  IF pa.priceCompression.detected THEN Adjust(sf, 5, "Price compression") ELSE sf

\* lines 199-203
BearTrapFactor(sf, pa) ==
  IF pa.fakeBreakdown.detected /\ pa.fakeBreakdown.signal = "BEAR_TRAP"
  THEN Adjust(sf, 12, "Bear trap") ELSE sf

\* lines 205-209
HealthyPullbackFactor(sf, pa) ==
  IF pa.lowerHighPattern.detected /\ pa.lowerHighPattern.signal = "HEALTHY_PULLBACK"
  THEN Adjust(sf, 8, "Healthy pullback") ELSE sf

\* lines 211-215
FloorDefenseFactor(sf, pa) ==
  IF pa.floorDefense.detected THEN Adjust(sf, 10, "Floor defense") ELSE sf

\* lines 217-221
GapUpFactor(sf, pa) ==
  IF pa.gapUpBreakout.detected THEN Adjust(sf, 15, "Gap up breakout") ELSE sf

\* a clamp that lost its ceiling
ClampV1_NoCeiling(s) == Max(20, s)

\* score = Math.max(20, Math.min(80, score))
ClampV1(s) == Max(20, Min(80, s))

\* the two upper bands exchanged
SignalV1_Swapped(s) == IF s >= 65 THEN "HOLD" ELSE IF s >= 50 THEN "BUY" ELSE "REDUCE"

\* lines 226-229
SignalV1(s) == IF s >= 65 THEN "BUY" ELSE IF s >= 50 THEN "HOLD" ELSE "REDUCE"

\* the object returned at lines 231-238 (analysis, the display text, left out);
\* avgBrokerCost is Math.floor(avgBrokerCost)
ReturnV1(s, fs, cost, premium) ==
  [score |-> ClampV1(s), signal |-> SignalV1(ClampV1(s)),
   avgBrokerCost |-> Frac(JsFloor(cost), 1), premiumToCost |-> premium, factors |-> fs]

\* a detector record that is missing from the bundle (undefined)
Absent == [detected |-> FALSE, signal |-> "ABSENT"]
Det(d, sig) == [detected |-> d, signal |-> sig]

\* the whole function on an indicator bundle
calculateBandarScore(stockData, ind) ==
  LET cost    == avgBrokerCost(ind.brokerSummary, stockData.close)
      premium == premiumToCost(stockData.close, cost)
      s0  == [score |-> 50, factors |-> <<>>]
      s1  == ForeignFlowImpact(s0, ind.foreignFlow.netValue)
      s2  == TopBrokerAlignment(s1, top3NetValue(ind.brokerSummary))
      s3  == CostBasis(s2, premium)
      s4  == VolumeConfirmation(s3, ind.volumeAnalysis, ind.priceAction.changePct)
      s5  == VolumeSpikeDetection(s4, ind.volumeAnalysis.volumeSpike)
      s6  == VolumeDryUpDetection(s5, ind.volumeAnalysis.volumeDryUp)
      s7  == BidAskImbalanceDetection(s6, ind.volumeAnalysis.bidAskImbalance)
      s8  == ForeignStreakDetection(s7, ind.foreignStreak)
      s9  == BrokerConcentrationDetection(s8, ind.brokerConcentration)
      s10 == PriceCompressionFactor(s9, ind.priceAction)
      s11 == BearTrapFactor(s10, ind.priceAction)
      s12 == HealthyPullbackFactor(s11, ind.priceAction)
      s13 == FloorDefenseFactor(s12, ind.priceAction)
      s14 == GapUpFactor(s13, ind.priceAction)
  IN  ReturnV1(s14.score, s14.factors, cost, premium)

-----------------------------------------------------------------------------
(* scoring-v3.js *)

BIG_DOG_BROKERS == {"YU", "CC", "NI", "GW", "SQ", "OD", "BK", "AK"}
INSTITUTIONAL_BROKERS == {"YU", "CC", "NI", "GW", "SQ", "OD", "BK", "AK", "MS", "JP", "GS"}
RETAIL_BROKERS == {"DX", "ZZ", "QQ", "MG", "PD", "HP"}

WEIGHTS ==
  [brokerAccumulation |->
     [concentrationRatioHigh |-> 25, concentrationRatioMedium |-> 18,
      multiDayAccumulation |-> 15, hiddenAccumulation |-> 12,
      contraFlow |-> 10, bigDogPresence |-> 5],
   volumePrice |->
     [unusualVolumeSpike |-> 15, volumeDryUpBreakout |-> 15,
      priceCompression |-> 12, breakoutGap |-> 10],
   foreignFlow |->
     [strongNetBuy |-> 12, moderateNetBuy |-> 8, streakBonus |-> 5, strongNetSell |-> -20],
   quantitative |->
     [obvDivergence |-> 8, cmfPositive |-> 6, mfiTrendingUp |-> 5, vwapReclaim |-> 5],
   relativeStrength |-> [vsIHSGDivergence |-> 6, sectorLeadership |-> 5]]

Zero == Frac(0, 1)
FInt(k) == Frac(k, 1)

\* Math.round of a fraction
Round(x) == (2 * x.n + x.d) \div (2 * x.d)

\* x > n/d and x < n/d for a finite fraction x (d > 0)
FracGT(x, n, d) == x.n * d > n * x.d
FracLT(x, n, d) == x.n * d < n * x.d
FracAdd(x, y) == Frac(x.n * y.d + y.n * x.d, x.d * y.d)
FracMul(x, y) == Frac(x.n * y.n, x.d * y.d)
\* x / y for finite fractions with y > 0
FracDiv(x, y) == Frac(x.n * y.d, x.d * y.n)

\* an ownership record that was not supplied
\* (controllingStakeStable is FALSE only when the field is literally false)
NoOwnership ==
  [present |-> FALSE, totalShares |-> 0, controllingStake |-> 0,
   controllingStakeStable |-> TRUE]
Ownership(t, c, stable) ==
  [present |-> TRUE, totalShares |-> t, controllingStake |-> c,
   controllingStakeStable |-> stable]

\* lines 398-406
estimateFloat(ownership) ==
  IF ~ownership.present THEN FInt(1000000000)
  ELSE IF ownership.totalShares > 0 /\ ownership.controllingStake > 0
       THEN Frac(ownership.totalShares * (100 - ownership.controllingStake), 100)
       ELSE Frac(ownership.totalShares * 3, 10)

\* historical.slice(-k)
LastK(h, k) == IF Len(h) <= k THEN h ELSE SubSeq(h, Len(h) - k + 1, Len(h))

RECURSIVE SumVolume(_)
SumVolume(h) == IF h = <<>> THEN 0 ELSE Head(h).volume + SumVolume(Tail(h))

\* lines 421-425
calculateAverageVolume(historical, days) ==
  IF Len(historical) < days THEN Zero
  ELSE Frac(SumVolume(LastK(historical, days)), days)

\* d.high || d.close || 0 and d.low || d.close || 0
HighOf(d) == IF d.high # 0 THEN d.high ELSE d.close
LowOf(d) == IF d.low # 0 THEN d.low ELSE d.close

RECURSIVE MaxHigh(_)
MaxHigh(h) == IF Len(h) = 1 THEN HighOf(h[1]) ELSE Max(HighOf(Head(h)), MaxHigh(Tail(h)))
RECURSIVE MinLow(_)
MinLow(h) == IF Len(h) = 1 THEN LowOf(h[1]) ELSE Min(LowOf(Head(h)), MinLow(Tail(h)))
RECURSIVE MaxRawHigh(_)
MaxRawHigh(h) == IF Len(h) = 1 THEN h[1].high ELSE Max(Head(h).high, MaxRawHigh(Tail(h)))

\* lines 427-434
calculatePriceRange(historical) ==
  IF historical = <<>> THEN Zero
  ELSE LET max == MaxHigh(historical)
           min == MinLow(historical)
       IN  IF max + min > 0 THEN Frac(2 * (max - min), max + min) ELSE Zero

\* lines 436-439
calculateResistanceLevel(historical) ==
  IF Len(historical) < 20 THEN 0 ELSE MaxRawHigh(LastK(historical, 20))

\* lines 441-448
RECURSIVE calculateOBV(_)
calculateOBV(h) ==
  IF Len(h) < 2 THEN 0
  ELSE LET n == Len(h)
           change == h[n].close - h[n - 1].close
       IN  calculateOBV(SubSeq(h, 1, n - 1))
             + (IF change > 0 THEN h[n].volume ELSE IF change < 0 THEN -h[n].volume ELSE 0)

\* lines 450-455
analyzeOBVTrend(obv, historical) ==
  IF Len(historical) < 10 THEN "neutral"
  ELSE LET priceHigh == MaxHigh(LastK(historical, 10))
           prev == SubSeq(historical, Max(1, Len(historical) - 19), Len(historical) - 10)
       IN  IF obv > 0 /\ prev # <<>> /\ priceHigh <= MaxHigh(prev) THEN "leading" ELSE "neutral"

RECURSIVE SumMF(_)
SumMF(h) ==
  IF h = <<>> THEN Zero
  ELSE LET d == Head(h)
       IN  IF HighOf(d) > LowOf(d)
           THEN FracAdd(Frac(((d.close - LowOf(d)) - (HighOf(d) - d.close)) * d.volume,
                             HighOf(d) - LowOf(d)),
                        SumMF(Tail(h)))
           ELSE SumMF(Tail(h))

RECURSIVE SumMFVolume(_)
SumMFVolume(h) ==
  IF h = <<>> THEN 0
  ELSE (IF HighOf(Head(h)) > LowOf(Head(h)) THEN Head(h).volume ELSE 0) + SumMFVolume(Tail(h))

\* lines 457-470
calculateCMF(historical, period) ==
  IF Len(historical) < period THEN Zero
  ELSE LET recent == LastK(historical, period)
       IN  IF SumMFVolume(recent) > 0
           THEN FracDiv(SumMF(recent), FInt(SumMFVolume(recent)))
           ELSE Zero

RECURSIVE SumTypicalValue3(_)
SumTypicalValue3(h) ==
  IF h = <<>> THEN 0
  ELSE (HighOf(Head(h)) + LowOf(Head(h)) + Head(h).close) * Head(h).volume
         + SumTypicalValue3(Tail(h))

\* lines 472-480
calculateVWAP(historical) ==
  IF SumVolume(historical) > 0
  THEN Frac(SumTypicalValue3(historical), 3 * SumVolume(historical))
  ELSE Zero

\* metrics that already carry a leading OBV and a positive CMF
calculateMetrics_Leading(stockData) ==
  [currentPrice |-> stockData.price,
   avgVolume20 |-> calculateAverageVolume(stockData.historical, 20),
   floatSize |-> estimateFloat(stockData.ownership),
   resistanceLevel |-> calculateResistanceLevel(stockData.historical),
   obvTrend |-> "leading",
   cmfValue |-> Frac(1, 10)]

\* lines 386-396
calculateMetrics(stockData) ==
  [currentPrice |-> stockData.price,
   avgVolume20 |-> calculateAverageVolume(stockData.historical, 20),
   floatSize |-> estimateFloat(stockData.ownership),
   resistanceLevel |-> calculateResistanceLevel(stockData.historical),
   obvTrend |-> "neutral",
   cmfValue |-> Zero]

RECURSIVE SumBuy(_)
SumBuy(bs) == IF bs = <<>> THEN 0 ELSE Head(bs).buyVolume + SumBuy(Tail(bs))
RECURSIVE SumSell(_)
SumSell(bs) == IF bs = <<>> THEN 0 ELSE Head(bs).sellVolume + SumSell(Tail(bs))

\* brokerData.filter(b => codes.includes(b.code))
RECURSIVE WithCode(_, _)
WithCode(bs, codes) ==
  IF bs = <<>> THEN <<>>
  ELSE (IF Head(bs).code \in codes THEN <<Head(bs)>> ELSE <<>>) \o WithCode(Tail(bs), codes)

\* [...brokerData].sort((a, b) => (b.buyVolume || 0) - (a.buyVolume || 0))
sortedByBuy(brokerData) ==
  LET keyed == [i \in 1..Len(brokerData) |->
                  [key |-> brokerData[i].buyVolume, val |-> brokerData[i]]]
      sorted == SortDescKeyed(keyed)
  IN  [i \in 1..Len(sorted) |-> sorted[i].val]

RECURSIVE SumPricedValue(_)
SumPricedValue(bs) ==
  IF bs = <<>> THEN 0
  ELSE (IF Head(bs).avgPrice > 0
        THEN (Head(bs).buyVolume + Head(bs).sellVolume) * Head(bs).avgPrice ELSE 0)
       + SumPricedValue(Tail(bs))
RECURSIVE SumPricedVolume(_)
SumPricedVolume(bs) ==
  IF bs = <<>> THEN 0
  ELSE (IF Head(bs).avgPrice > 0 THEN Head(bs).buyVolume + Head(bs).sellVolume ELSE 0)
       + SumPricedVolume(Tail(bs))

\* lines 408-419
calculateBrokerVWAP(brokerData) ==
  IF SumPricedVolume(brokerData) > 0
  THEN Frac(SumPricedValue(brokerData), SumPricedVolume(brokerData))
  ELSE Zero

RECURSIVE CountNetBuyers(_)
CountNetBuyers(bs) ==
  IF bs = <<>> THEN 0
  ELSE (IF Head(bs).buyVolume - Head(bs).sellVolume > 0 THEN 1 ELSE 0) + CountNetBuyers(Tail(bs))

\* score += d; factors.push(f) inside one analysis function
Adj3(r, d, f) == [r EXCEPT !.score = @ + d, !.factors = Append(@, f)]
\* convictionFactors.push(c)
Conv(r, c) == [r EXCEPT !.convictionFactors = Append(@, c)]
\* factors.push(f) alone
Push(r, f) == [r EXCEPT !.factors = Append(@, f)]

Start3 == [score |-> 0, factors |-> <<>>, convictionFactors |-> <<>>]

\* lines 173-186
ConcentrationBranch(r, top3Concentration, top3NetVolume) ==
  IF FracGT(top3Concentration, 1, 2) /\ top3NetVolume > 0
  THEN Conv(Adj3(r, WEIGHTS.brokerAccumulation.concentrationRatioHigh,
                 "High concentration (NET BUYING)"), "high_concentration")
  ELSE IF FracGT(top3Concentration, 35, 100) /\ top3NetVolume > 0
  THEN Adj3(r, WEIGHTS.brokerAccumulation.concentrationRatioMedium,
            "Moderate concentration (NET BUYING)")
  ELSE IF FracGT(top3Concentration, 1, 2) /\ top3NetVolume <= 0
  THEN Conv(Adj3(r, -15, "High concentration but NET SELLING"), "concentrated_selling")
  ELSE r

\* lines 188-199
BigDogBranch(r, bigDogNet, bigDogCount, totalBuy) ==
  IF bigDogNet > 0 /\ bigDogCount >= 2
  THEN Conv(Adj3(r, WEIGHTS.brokerAccumulation.multiDayAccumulation, "Big Dog accumulation"),
            "big_dog_accumulating")
  ELSE IF bigDogNet > 0
  THEN Adj3(r, WEIGHTS.brokerAccumulation.bigDogPresence, "Big Dog presence")
  ELSE IF bigDogNet < 0 /\ 10 * Abs(bigDogNet) > totalBuy
  THEN Conv(Adj3(r, -15, "Big Dog distribution"), "big_dog_distributing")
  ELSE r

\* lines 201-205
ContraFlowBranch(r, contraFlow, netVolume) ==
  IF contraFlow /\ netVolume > 0
  THEN Conv(Adj3(r, WEIGHTS.brokerAccumulation.contraFlow, "Contra flow"), "contra_flow")
  ELSE r

\* lines 207-214
AccumulationBranch(r, accumulationPct) ==
  IF FracGT(accumulationPct, 1, 10)
  THEN Conv(Adj3(r, WEIGHTS.brokerAccumulation.hiddenAccumulation, "Strong accumulation"),
            "high_float_pct")
  ELSE IF FracGT(accumulationPct, 5, 100)
  THEN Adj3(r, 6, "Moderate accumulation")
  ELSE r

\* lines 216-223
PriceVsAvgBranch(r, priceVsAvg) ==
  IF FracGT(priceVsAvg, 0, 1) /\ FracLT(priceVsAvg, 20, 1)
  THEN Conv(Push(r, "Sweet spot"), "sweet_spot")
  ELSE IF FracGT(priceVsAvg, 30, 1)
  THEN Conv(Adj3(r, -10, "Above broker avg (distribution risk)"), "extended")
  ELSE r

\* line 146: totalBuy > 0 ? top3BuyVolume / totalBuy : 0
Top3Concentration(top3BuyVolume, totalBuy) ==
  IF totalBuy > 0 THEN JsDiv(FInt(top3BuyVolume), FInt(totalBuy)) ELSE Zero

\* lines 121-240 (topBrokers, a display list, left out)
analyzeBrokerAccumulation(brokerData, ownership, metrics) ==
  IF brokerData = <<>>
  THEN [scoreContribution |-> 0, factors |-> <<"No broker data">>,
        convictionFactors |-> <<>>, accumulationPctOfFloat |-> Zero,
        estimatedAvgPrice |-> Zero, priceVsAvg |-> Zero,
        top3Concentration |-> Zero, bigDogNet |-> 0]
  ELSE
    LET totalBuy   == SumBuy(brokerData)
        totalSell  == SumSell(brokerData)
        netVolume  == totalBuy - totalSell
        top3Buyers == Take(sortedByBuy(brokerData), 3)
        top3Concentration == Top3Concentration(SumBuy(top3Buyers), totalBuy)
        top3NetVolume == SumBuy(top3Buyers) - SumSell(top3Buyers)
        bigDogActivity == WithCode(brokerData, BIG_DOG_BROKERS)
        bigDogNet == SumBuy(bigDogActivity) - SumSell(bigDogActivity)
        institutionalBuy == SumBuy(WithCode(brokerData, INSTITUTIONAL_BROKERS))
        retailSell == SumSell(WithCode(brokerData, RETAIL_BROKERS))
        contraFlow == institutionalBuy > 0 /\ 2 * retailSell > institutionalBuy
        floatSize ==
          IF metrics.floatSize.n # 0 THEN metrics.floatSize ELSE estimateFloat(ownership)
        accumulationPct ==
          IF floatSize.n > 0 THEN FracDiv(FInt(Abs(netVolume)), floatSize) ELSE Zero
        estimatedAvgPrice == calculateBrokerVWAP(brokerData)
        currentPrice == metrics.currentPrice
        priceVsAvg ==
          IF estimatedAvgPrice.n > 0
          THEN FracMul(FracDiv(FracAdd(FInt(currentPrice), Frac(-estimatedAvgPrice.n, estimatedAvgPrice.d)),
                               estimatedAvgPrice), FInt(100))
          ELSE Zero
        r1 == ConcentrationBranch(Start3, top3Concentration, top3NetVolume)
        r2 == BigDogBranch(r1, bigDogNet, Len(bigDogActivity), totalBuy)
        r3 == ContraFlowBranch(r2, contraFlow, netVolume)
        r4 == AccumulationBranch(r3, accumulationPct)
        r5 == PriceVsAvgBranch(r4, priceVsAvg)
    IN  [scoreContribution |-> r5.score, factors |-> r5.factors,
         convictionFactors |-> r5.convictionFactors,
         accumulationPctOfFloat |-> FracMul(accumulationPct, FInt(100)),
         estimatedAvgPrice |-> estimatedAvgPrice, priceVsAvg |-> priceVsAvg,
         top3Concentration |-> JsTimes(top3Concentration, 100),
         bigDogNet |-> bigDogNet]

\* line 247: avgVolume20 > 0 ? volume / avgVolume20 : 1
VolumeSpikeRatio(volume, avgVolume20) ==
  IF avgVolume20.n > 0 THEN JsDiv(FInt(volume), avgVolume20) ELSE FInt(1)

\* lines 242-272; a non-integer volumeSpikeRatio is a fraction
analyzeVolumePrice(price, volume, historical, metrics) ==
  LET avgVolume20 == metrics.avgVolume20
      volumeSpikeRatio == VolumeSpikeRatio(volume, avgVolume20)
      r1 == IF FracGT(volumeSpikeRatio, 3, 1)
            THEN Adj3(Start3, WEIGHTS.volumePrice.unusualVolumeSpike, "Volume spike")
            ELSE IF FracGT(volumeSpikeRatio, 2, 1)
            THEN Adj3(Start3, 10, "Elevated volume")
            ELSE Start3
      r2 == IF Len(historical) >= 10
               /\ FracLT(calculatePriceRange(LastK(historical, 10)), 3, 100)
            THEN Adj3(r1, WEIGHTS.volumePrice.priceCompression, "Price compression")
            ELSE r1
      resistanceLevel == metrics.resistanceLevel
      r3 == IF resistanceLevel # 0 /\ 100 * price > 102 * resistanceLevel
               /\ FracGT(volumeSpikeRatio, 2, 1)
            THEN Adj3(r2, WEIGHTS.volumePrice.breakoutGap, "Breakout on volume")
            ELSE r2
  IN  [scoreContribution |-> r3.score, factors |-> r3.factors,
       volumeSpikeRatio |-> volumeSpikeRatio]

\* foreignData.streak when the caller supplies none
NoStreak == [buyDays |-> 0, sellDays |-> 0]

\* lines 274-304; netValue in money units
analyzeForeignFlow(foreignData) ==
  LET netValue == foreignData.netValue
      streakData == foreignData.streak
      r1 == IF streakData.buyDays >= 5
            THEN Adj3(Start3, WEIGHTS.foreignFlow.streakBonus, "Foreign buy streak")
            ELSE IF streakData.sellDays >= 5
            THEN Adj3(Start3, -WEIGHTS.foreignFlow.streakBonus, "Foreign sell streak")
            ELSE Start3
      streak == IF streakData.buyDays >= 5 THEN streakData.buyDays
                ELSE IF streakData.sellDays >= 5 THEN -streakData.sellDays ELSE 0
      r2 == IF netValue > Billion
            THEN Adj3(r1, WEIGHTS.foreignFlow.strongNetBuy, "Foreign inflow (strong)")
            ELSE IF 2 * netValue > Billion
            THEN Adj3(r1, WEIGHTS.foreignFlow.moderateNetBuy, "Foreign inflow (moderate)")
            ELSE IF netValue < -Billion
            THEN Adj3(r1, WEIGHTS.foreignFlow.strongNetSell, "Foreign outflow")
            ELSE r1
  IN  [scoreContribution |-> r2.score, factors |-> r2.factors, streak |-> streak]

\* lines 306-340
analyzeQuantitativeIndicators(historical, price, volume) ==
  IF Len(historical) < 20
  THEN [scoreContribution |-> 0, factors |-> <<"No quant data">>,
        obvTrend |-> "neutral", cmfValue |-> Zero]
  ELSE
    LET obv == calculateOBV(historical)
        obvTrend == analyzeOBVTrend(obv, historical)
        r1 == IF obvTrend = "leading"
              THEN Adj3(Start3, WEIGHTS.quantitative.obvDivergence, "OBV divergence")
              ELSE Start3
        cmf == calculateCMF(historical, 20)
        r2 == IF FracGT(cmf, 1, 10)
              THEN Adj3(r1, WEIGHTS.quantitative.cmfPositive, "CMF positive")
              ELSE IF FracLT(cmf, -1, 10)
              THEN Adj3(r1, -5, "CMF negative")
              ELSE r1
        vwap == calculateVWAP(historical)
        priceVsVWAP ==
          IF vwap.n > 0
          THEN FracMul(FracDiv(FracAdd(FInt(price), Frac(-vwap.n, vwap.d)), vwap), FInt(100))
          ELSE Zero
        r3 == IF FracGT(priceVsVWAP, 0, 1) /\ FracLT(priceVsVWAP, 5, 1)
              THEN Adj3(r2, WEIGHTS.quantitative.vwapReclaim, "Reclaimed VWAP")
              ELSE r2
    IN  [scoreContribution |-> r3.score, factors |-> r3.factors,
         obvTrend |-> obvTrend, cmfValue |-> cmf]

\* a marketContext.ihsgChange / stockData.changePct: undefined, or a number
Undefined == [defined |-> FALSE]
Num(x) == [defined |-> TRUE, v |-> x]

\* lines 342-354; both changes in tenths of a percent
analyzeRelativeStrength(stockData, marketContext) ==
  IF /\ marketContext.ihsgChange.defined
     /\ stockData.changePct.defined
     /\ marketContext.ihsgChange.v < -5
     /\ stockData.changePct.v > 0
  THEN [scoreContribution |-> WEIGHTS.relativeStrength.vsIHSGDivergence,
        factors |-> <<"Outperforming IHSG">>]
  ELSE [scoreContribution |-> 0, factors |-> <<>>]

\* Object.values(checks).filter(Boolean).length
CountTrue(checks) == Cardinality({k \in DOMAIN checks : checks[k]})

\* lines 356-384 (the recommendation text follows setupQuality)
assessIdealSetup(stockData, brokerAnalysis, metrics) ==
  LET checks ==
        [ownershipStable |-> stockData.ownership.controllingStakeStable,
         manageableFloat |-> metrics.floatSize.n # 0
                             /\ JsFloor(metrics.floatSize) \div 10 < 500000000,
         brokerAccumulating |-> FracGT(brokerAnalysis.accumulationPctOfFloat, 5, 1),
         brokerConcentrated |-> FracGT(brokerAnalysis.top3Concentration, 40, 1),
         inSweetSpot |-> FracGT(brokerAnalysis.priceVsAvg, 0, 1)
                         /\ FracLT(brokerAnalysis.priceVsAvg, 20, 1),
         notExtended |-> FracLT(brokerAnalysis.priceVsAvg, 30, 1),
         ongoingAccumulation |-> brokerAnalysis.bigDogNet > 0,
         obvPositive |-> metrics.obvTrend = "leading",
         cmfPositive |-> metrics.cmfValue.n > 0]
      passedChecks == CountTrue(checks)
      totalChecks == Cardinality(DOMAIN checks)
      setupScore == Frac(passedChecks * 100, totalChecks)
  IN  [setupQuality |-> IF ~FracLT(setupScore, 80, 1) THEN "excellent"
                        ELSE IF ~FracLT(setupScore, 60, 1) THEN "good"
                        ELSE IF ~FracLT(setupScore, 40, 1) THEN "fair" ELSE "poor",
       setupScore |-> Round(setupScore),
       checks |-> checks,
       passedChecks |-> passedChecks]

\* convictionFactors.includes(c)
Includes(cf, c) == \E i \in 1..Len(cf) : cf[i] = c

\* a raise without the cap
Bump_NoCap(conviction) == conviction + 1

\* conviction = Math.min(5, conviction + 1)
Bump(conviction) == Min(5, conviction + 1)

\* a STRONG_BUY cut point low enough for one factor to reach
SignalV3_LowCut(s) ==
  IF s >= 65 THEN "STRONG_BUY" ELSE IF s >= 60 THEN "BUY" ELSE IF s >= 45 THEN "HOLD"
  ELSE IF s >= 30 THEN "REDUCE" ELSE "SELL"

\* line 483
SignalV3(s) ==
  IF s >= 75 THEN "STRONG_BUY" ELSE IF s >= 60 THEN "BUY" ELSE IF s >= 45 THEN "HOLD"
  ELSE IF s >= 30 THEN "REDUCE" ELSE "SELL"

\* line 484
BandConviction(s) ==
  IF s >= 75 THEN 5 ELSE IF s >= 60 THEN 4 ELSE IF s >= 45 THEN 3
  ELSE IF s >= 30 THEN 2 ELSE 1

\* lines 482-491
determineSignal(s, cf) ==
  LET c0 == BandConviction(s)
      c1 == IF Includes(cf, "high_concentration") THEN Bump(c0) ELSE c0
      c2 == IF Includes(cf, "sweet_spot") THEN Bump(c1) ELSE c1
      c3 == IF Includes(cf, "big_dog_accumulating") THEN Bump(c2) ELSE c2
  IN  [signal |-> SignalV3(s), conviction |-> c3]

\* line 94
ClampV3(s) == Max(0, Min(100, s))

\* lines 52-119 of scoring-v3.js: the whole function; stockData carries
\* price, volume, historical, brokerData, foreignData, ownership, changePct
scoreV3(stockData, marketContext) ==
  LET metrics == calculateMetrics(stockData)
      brokerAnalysis == analyzeBrokerAccumulation(stockData.brokerData, stockData.ownership, metrics)
      volumeAnalysis == analyzeVolumePrice(stockData.price, stockData.volume,
                                           stockData.historical, metrics)
      foreignAnalysis == analyzeForeignFlow(stockData.foreignData)
      quantAnalysis == analyzeQuantitativeIndicators(stockData.historical, stockData.price,
                                                     stockData.volume)
      rsAnalysis == analyzeRelativeStrength(stockData, marketContext)
      s == 50 + brokerAnalysis.scoreContribution + volumeAnalysis.scoreContribution
              + foreignAnalysis.scoreContribution + quantAnalysis.scoreContribution
              + rsAnalysis.scoreContribution
      fs == brokerAnalysis.factors \o volumeAnalysis.factors \o foreignAnalysis.factors
              \o quantAnalysis.factors \o rsAnalysis.factors
      signal == determineSignal(ClampV3(s), brokerAnalysis.convictionFactors)
  IN  [score |-> ClampV3(s), signal |-> signal.signal, conviction |-> signal.conviction,
       factors |-> fs, convictionFactors |-> brokerAnalysis.convictionFactors]

-----------------------------------------------------------------------------
(* Inputs of scoring.js *)

\* the broker records a brokerSummary is drawn from: the broker of the
\* end-to-end scenario (1,000 lots for 1,000,000,000 IDR), a large buyer and
\* a large seller (30,000,000,000 IDR each)
BrokerChoices ==
  { Broker("YU", 1000, 1000, 0, 0),
    Broker("CC", 3000, 30000, 0, 0),
    Broker("DX", 0, 0, 3000, 30000) }

SeqsUpTo(S, n) == UNION { [1..k -> S] : k \in 0..n }

BrokerSummaries == SeqsUpTo(BrokerChoices, MaxBrokers)

ClosePrices == {0, 1050, 10000, 13500}

ForeignNetValues == {-1001, -1000, 0, 1000, 1001}

VolumeAnalyses ==
  { [totalVolume |-> t, averageVolume |-> a] : t \in {0, 4, 5}, a \in {0, 2} }

ChangePcts == {-1, 0, 1}

VolumeSpikes ==
  {Absent} \cup { Det(d, g) : d \in BOOLEAN, g \in {"NORMAL", "STEALTH_ACCUMULATION", "BREAKOUT"} }
VolumeDryUps ==
  {Absent} \cup { Det(d, g) : d \in BOOLEAN, g \in {"NORMAL", "VDU_BREAKOUT", "VDU_ACCUMULATING"} }
BidAskImbalances ==
  {Absent} \cup { Det(d, g) : d \in BOOLEAN,
                   g \in {"NEUTRAL", "STEALTH_ACCUMULATION", "HIDDEN_SUPPORT", "DISTRIBUTION"} }
ForeignStreaks ==
  {Absent} \cup { Det(d, g) : d \in BOOLEAN,
                   g \in {"NEUTRAL", "STRONG_BULLISH", "BULLISH", "MODERATE_BULLISH",
                          "STRONG_BEARISH", "BEARISH"} }
BrokerConcentrations ==
  {Absent} \cup { Det(d, g) : d \in BOOLEAN,
                   g \in {"NEUTRAL", "HIGH_CONCENTRATION", "COORDINATED_BUYING",
                          "MODERATE_CONCENTRATION"} }

\* indicators.priceAction with the given pattern records
PriceAction(pc0, fb, lh, fd, gu) ==
  [priceCompression |-> pc0, fakeBreakdown |-> fb, lowerHighPattern |-> lh,
   floorDefense |-> fd, gapUpBreakout |-> gu, changePct |-> 0]

Pattern(g) == {Absent, Det(FALSE, "NORMAL"), Det(TRUE, g), Det(TRUE, "NORMAL")}
Quiet == Det(FALSE, "NORMAL")

-----------------------------------------------------------------------------
(* scoring.js calculateBandarScore, one action per statement group *)

Goto(next, sf) ==
  /\ pc' = next
  /\ score' = sf.score
  /\ factors' = sf.factors
  /\ UNCHANGED <<mode, inp, loc, convictionFactors, out>>

\* only inputs in which at most MaxFactors factors fire are drawn
Drawn(next, sf) == Len(sf.factors) <= MaxFactors /\ Goto(next, sf)

Now == [score |-> score, factors |-> factors]

\* lines 5-37, 47-53 and 82-83: the locals, the cost-basis lines of the
\* analysis text, then let score = 50; const factors = []
V1Prelude ==
  /\ mode = "v1" /\ pc = "entry"
  /\ LET cost == avgBrokerCost(inp.brokerSummary, inp.close)
     IN  loc' = [avgBrokerCost |-> cost,
                 premiumToCost |-> premiumToCost(inp.close, cost),
                 costBasisLabels |-> CostBasisLabels(premiumToCost(inp.close, cost)),
                 top3NetValue  |-> top3NetValue(inp.brokerSummary)]
  /\ pc' = "foreign" /\ score' = 50 /\ factors' = <<>>
  /\ UNCHANGED <<mode, inp, convictionFactors, out>>

V1Foreign ==
  /\ mode = "v1" /\ pc = "foreign"
  /\ \E v \in ForeignNetValues : Drawn("top3", ForeignFlowImpact(Now, v))

V1Top3 ==
  /\ mode = "v1" /\ pc = "top3"
  /\ Goto("cost", TopBrokerAlignment(Now, loc.top3NetValue))

V1Cost ==
  /\ mode = "v1" /\ pc = "cost"
  /\ Goto("volconf", CostBasis(Now, loc.premiumToCost))

V1VolumeConfirmation ==
  /\ mode = "v1" /\ pc = "volconf"
  /\ \E va \in VolumeAnalyses, c \in ChangePcts :
        Drawn("vs", VolumeConfirmation(Now, va, c))

V1VolumeSpike ==
  /\ mode = "v1" /\ pc = "vs"
  /\ \E v \in VolumeSpikes : Drawn("vdu", VolumeSpikeDetection(Now, v))

V1VolumeDryUp ==
  /\ mode = "v1" /\ pc = "vdu"
  /\ \E v \in VolumeDryUps : Drawn("bai", VolumeDryUpDetection(Now, v))

V1BidAsk ==
  /\ mode = "v1" /\ pc = "bai"
  /\ \E v \in BidAskImbalances : Drawn("fs", BidAskImbalanceDetection(Now, v))

V1ForeignStreak ==
  /\ mode = "v1" /\ pc = "fs"
  /\ \E v \in ForeignStreaks : Drawn("bc", ForeignStreakDetection(Now, v))

V1BrokerConcentration ==
  /\ mode = "v1" /\ pc = "bc"
  /\ \E v \in BrokerConcentrations : Drawn("compression", BrokerConcentrationDetection(Now, v))

V1Compression ==
  /\ mode = "v1" /\ pc = "compression"
  /\ \E v \in Pattern("COMPRESSION") :
        Drawn("beartrap", PriceCompressionFactor(Now, PriceAction(v, Quiet, Quiet, Quiet, Quiet)))

V1BearTrap ==
  /\ mode = "v1" /\ pc = "beartrap"
  /\ \E v \in Pattern("BEAR_TRAP") :
        Drawn("pullback", BearTrapFactor(Now, PriceAction(Quiet, v, Quiet, Quiet, Quiet)))

V1Pullback ==
  /\ mode = "v1" /\ pc = "pullback"
  /\ \E v \in Pattern("HEALTHY_PULLBACK") :
        Drawn("floor", HealthyPullbackFactor(Now, PriceAction(Quiet, Quiet, v, Quiet, Quiet)))

V1FloorDefense ==
  /\ mode = "v1" /\ pc = "floor"
  /\ \E v \in Pattern("FLOOR_DEFENSE") :
        Drawn("gap", FloorDefenseFactor(Now, PriceAction(Quiet, Quiet, Quiet, v, Quiet)))

V1GapUp ==
  /\ mode = "v1" /\ pc = "gap"
  /\ \E v \in Pattern("GAP_UP_BREAKOUT") :
        Drawn("return", GapUpFactor(Now, PriceAction(Quiet, Quiet, Quiet, Quiet, v)))

\* lines 224-238: clamp, choose the signal, return
V1Return ==
  /\ mode = "v1" /\ pc = "return"
  /\ out' = ReturnV1(score, factors, loc.avgBrokerCost, loc.premiumToCost)
  /\ score' = ClampV1(score)
  /\ pc' = "done"
  /\ UNCHANGED <<mode, inp, loc, factors, convictionFactors>>

NextV1 ==
  \/ V1Prelude \/ V1Foreign \/ V1Top3 \/ V1Cost \/ V1VolumeConfirmation
  \/ V1VolumeSpike \/ V1VolumeDryUp \/ V1BidAsk \/ V1ForeignStreak
  \/ V1BrokerConcentration \/ V1Compression \/ V1BearTrap \/ V1Pullback
  \/ V1FloorDefense \/ V1GapUp \/ V1Return

InitV1 ==
  /\ mode = "v1" /\ pc = "entry"
  /\ inp \in { [close |-> c, brokerSummary |-> b] : c \in ClosePrices, b \in BrokerSummaries }
  /\ loc = NoValue /\ score = 0 /\ factors = <<>> /\ convictionFactors = <<>>
  /\ out = NoValue

-----------------------------------------------------------------------------
(* Inputs of scoring-v3.js *)

Broker3(code, buyVolume, sellVolume, avgPrice) ==
  [code |-> code, buyVolume |-> buyVolume, sellVolume |-> sellVolume,
   avgPrice |-> avgPrice]

\* two big dogs buying, a retail seller, a big dog selling
Broker3Choices ==
  { Broker3("YU", 60, 0, 1000),
    Broker3("CC", 30, 0, 800),
    Broker3("DX", 0, 40, 1000),
    Broker3("AK", 10, 50, 0) }

\* six equal institutional buyers: the top three hold exactly half the buying
SixBuyers == [i \in 1..6 |-> Broker3("MS", 10, 0, 1000)]

BrokerDatas == SeqsUpTo(Broker3Choices, MaxBrokers) \cup {SixBuyers}

Bar(high, low, close, volume) ==
  [high |-> high, low |-> low, close |-> close, volume |-> volume]

\* a tight bar, a tight bar closing higher under a lower high, a wide bar
\* closing weak, a wide bar closing mid-range, and a day without trading
Tight == Bar(1010, 1000, 1005, 100)
TightUp == Bar(1008, 1000, 1007, 100)
Weak == Bar(1100, 1000, 1020, 100)
Wide == Bar(1100, 1000, 1050, 100)
Idle == Bar(0, 0, 1005, 0)

\* ten equal trading days
Block(bar) == [i \in 1..10 |-> bar]

\* no history, ten days, and twenty-day histories: a quiet base that closes
\* higher, a weak range, a neutral range, and a suspended stock
Historicals ==
  { <<>>, Block(Tight), Block(Tight) \o Block(TightUp), Block(Weak) \o Block(Weak),
    Block(Wide) \o Block(Wide), Block(Idle) \o Block(Idle) }

Prices3 == {0, 1006, 1130}
Volumes3 == {100, 250, 350}
Ownerships == { NoOwnership, Ownership(1000, 50, TRUE), Ownership(0, 0, FALSE) }

\* net values at and next to the three thresholds; the streak goes with the
\* direction of the flow
ForeignDatas ==
  { [netValue |-> v, streak |-> NoStreak] : v \in {-1000, 0, 500, 501, 1000} }
    \cup { [netValue |-> 1001, streak |-> [buyDays |-> 5, sellDays |-> 0]],
           [netValue |-> -1001, streak |-> [buyDays |-> 4, sellDays |-> 5]] }

IhsgChanges == {Undefined, Num(-6), Num(-5)}
StockChanges == {Undefined, Num(0), Num(1)}

-----------------------------------------------------------------------------
(* scoring-v3.js calculateBandarScore, one action per priority bucket *)

\* score += a.scoreContribution; factors.push(...a.factors)
Bucket(next, a) ==
  /\ pc' = next
  /\ score' = score + a.scoreContribution
  /\ factors' = factors \o a.factors

\* lines 62-66
V3Metrics ==
  /\ mode = "v3" /\ pc = "entry"
  /\ loc' = [metrics |-> calculateMetrics(inp)]
  /\ pc' = "broker" /\ score' = 50 /\ factors' = <<>> /\ convictionFactors' = <<>>
  /\ UNCHANGED <<mode, inp, out>>

\* lines 68-72
V3Broker ==
  /\ mode = "v3" /\ pc = "broker"
  /\ \E brokerData \in BrokerDatas :
       LET a == analyzeBrokerAccumulation(brokerData, inp.ownership, loc.metrics)
       IN  /\ Bucket("volumePrice", a)
           /\ convictionFactors' = convictionFactors \o a.convictionFactors
           /\ loc' = [metrics |-> loc.metrics, brokerAnalysis |-> a]
  /\ UNCHANGED <<mode, inp, out>>

\* lines 74-77
V3VolumePrice ==
  /\ mode = "v3" /\ pc = "volumePrice"
  /\ LET a == analyzeVolumePrice(inp.price, inp.volume, inp.historical, loc.metrics)
     IN  /\ Bucket("foreign", a)
         /\ loc' = [metrics |-> loc.metrics, brokerAnalysis |-> loc.brokerAnalysis,
                    volumeSpikeRatio |-> a.volumeSpikeRatio]
  /\ UNCHANGED <<mode, inp, convictionFactors, out>>

\* lines 79-82
V3Foreign ==
  /\ mode = "v3" /\ pc = "foreign"
  /\ \E foreignData \in ForeignDatas :
       LET a == analyzeForeignFlow(foreignData)
       IN  /\ Bucket("quant", a)
           /\ loc' = [metrics |-> loc.metrics, brokerAnalysis |-> loc.brokerAnalysis,
                      volumeSpikeRatio |-> loc.volumeSpikeRatio,
                      foreignStreak |-> a.streak]
  /\ UNCHANGED <<mode, inp, convictionFactors, out>>

\* lines 84-87
V3Quant ==
  /\ mode = "v3" /\ pc = "quant"
  /\ LET a == analyzeQuantitativeIndicators(inp.historical, inp.price, inp.volume)
     IN  /\ Bucket("rs", a)
         /\ loc' = [metrics |-> loc.metrics, brokerAnalysis |-> loc.brokerAnalysis,
                    volumeSpikeRatio |-> loc.volumeSpikeRatio,
                    foreignStreak |-> loc.foreignStreak,
                    obvTrend |-> a.obvTrend, cmfValue |-> a.cmfValue]
  /\ UNCHANGED <<mode, inp, convictionFactors, out>>

\* lines 89-92
V3RelativeStrength ==
  /\ mode = "v3" /\ pc = "rs"
  /\ \E ihsgChange \in IhsgChanges, changePct \in StockChanges :
       Bucket("return", analyzeRelativeStrength([changePct |-> changePct],
                                                [ihsgChange |-> ihsgChange]))
  /\ UNCHANGED <<mode, inp, loc, convictionFactors, out>>

\* lines 94-118 (the reasoning text left out)
ReturnV3(s, fs, cf, stockData, l) ==
  LET clamped == ClampV3(s)
      signal == determineSignal(clamped, cf)
  IN  [score |-> clamped,
       signal |-> signal.signal,
       conviction |-> signal.conviction,
       factors |-> fs,
       convictionFactors |-> cf,
       idealSetup |-> assessIdealSetup(stockData, l.brokerAnalysis, l.metrics),
       metrics |-> [brokerAccumulationPct |-> l.brokerAnalysis.accumulationPctOfFloat,
                    brokerAvgPrice |-> l.brokerAnalysis.estimatedAvgPrice,
                    currentVsAvgPrice |-> l.brokerAnalysis.priceVsAvg,
                    floatSize |-> l.metrics.floatSize,
                    top3BrokerConcentration |-> l.brokerAnalysis.top3Concentration,
                    obvTrend |-> l.obvTrend,
                    cmfValue |-> l.cmfValue,
                    foreignStreak |-> l.foreignStreak]]

V3Return ==
  /\ mode = "v3" /\ pc = "return"
  /\ out' = ReturnV3(score, factors, convictionFactors, inp, loc)
  /\ score' = ClampV3(score)
  /\ pc' = "done"
  /\ UNCHANGED <<mode, inp, loc, factors, convictionFactors>>

NextV3 ==
  \/ V3Metrics \/ V3Broker \/ V3VolumePrice \/ V3Foreign \/ V3Quant
  \/ V3RelativeStrength \/ V3Return

InitV3 ==
  /\ mode = "v3" /\ pc = "entry"
  /\ inp \in { [price |-> p, volume |-> v, historical |-> h, ownership |-> o] :
                 p \in Prices3, v \in Volumes3, h \in Historicals, o \in Ownerships }
  /\ loc = NoValue /\ score = 0 /\ factors = <<>> /\ convictionFactors = <<>>
  /\ out = NoValue

-----------------------------------------------------------------------------
(* backtest.js : calculateHistoricalScore and the signal of runBacktest    *)
(* foreignNet in IDR, bandarNet in shares, largeLotRatio in hundredths     *)

\* lines 58-61
BtForeignFlow(s, foreignNet) ==
  IF foreignNet > 500000000 THEN s + 15
  ELSE IF foreignNet > 100000000 THEN s + 10
  ELSE IF foreignNet < -500000000 THEN s - 15
  ELSE IF foreignNet < -100000000 THEN s - 10
  ELSE s

\* lines 64-67
BtBandarActivity(s, bandarNet) ==
  IF bandarNet > 2000000 THEN s + 20
  ELSE IF bandarNet > 500000 THEN s + 15
  ELSE IF bandarNet < -2000000 THEN s - 20
  ELSE IF bandarNet < -500000 THEN s - 15
  ELSE s

\* lines 70-71
BtLargeLots(s, largeLotRatio) ==
  IF largeLotRatio > 40 THEN s + 10
  ELSE IF largeLotRatio > 25 THEN s + 5
  ELSE s

\* lines 74-75
BtSid(s, sidChange) ==
  IF sidChange > 100 THEN s + 5
  ELSE IF sidChange < -100 THEN s - 5
  ELSE s

\* lines 78-80
BtQueue(s, queueScore) ==
  IF queueScore > 70 THEN s + 10
  ELSE IF queueScore > 50 THEN s + 5
  ELSE IF queueScore < 30 THEN s - 5
  ELSE s

\* lines 83-84
BtPriceAction(s, changePct) ==
  IF changePct > 5 THEN s + 5
  ELSE IF changePct < -5 THEN s - 5
  ELSE s

\* line 86
ClampBt(s) == Max(0, Min(100, s))

\* lines 54-87
calculateHistoricalScore(price, indicators) ==
  ClampBt(BtPriceAction(BtQueue(BtSid(BtLargeLots(BtBandarActivity(
            BtForeignFlow(50, indicators.foreignNet), indicators.bandarNet),
            indicators.largeLotRatio), indicators.sidChange), indicators.queueScore),
          price.changePct))

\* line 127
SignalBt(s) == IF s >= 70 THEN "BUY" ELSE IF s < 40 THEN "SELL" ELSE "HOLD"

BtForeignNets == {-500000001, -500000000, -100000001, 0, 100000001, 500000000, 500000001}
BtBandarNets == {-2000001, -2000000, -500001, 0, 500001, 2000000, 2000001}
BtLargeLotRatios == {0, 25, 26, 40, 41}
BtSidChanges == {-101, -100, 0, 100, 101}
BtQueueScores == {29, 30, 50, 51, 70, 71}
BtChangePcts == {-6, -5, 0, 5, 6}

BtStep(next, s) ==
  /\ pc' = next /\ score' = s
  /\ UNCHANGED <<mode, inp, loc, factors, convictionFactors, out>>

\* line 55
BtStart == mode = "bt" /\ pc = "entry" /\ BtStep("foreign", 50)

BtForeign ==
  /\ mode = "bt" /\ pc = "foreign"
  /\ \E v \in BtForeignNets : BtStep("bandar", BtForeignFlow(score, v))

BtBandar ==
  /\ mode = "bt" /\ pc = "bandar"
  /\ \E v \in BtBandarNets : BtStep("lots", BtBandarActivity(score, v))

BtLots ==
  /\ mode = "bt" /\ pc = "lots"
  /\ \E v \in BtLargeLotRatios : BtStep("sid", BtLargeLots(score, v))

BtSidStep ==
  /\ mode = "bt" /\ pc = "sid"
  /\ \E v \in BtSidChanges : BtStep("queue", BtSid(score, v))

BtQueueStep ==
  /\ mode = "bt" /\ pc = "queue"
  /\ \E v \in BtQueueScores : BtStep("price", BtQueue(score, v))

BtPrice ==
  /\ mode = "bt" /\ pc = "price"
  /\ \E v \in BtChangePcts : BtStep("return", BtPriceAction(score, v))

\* line 86: the clamped score is returned to runBacktest (line 122)
BtReturn == mode = "bt" /\ pc = "return" /\ BtStep("signal", ClampBt(score))

\* lines 123-128: the scored stock
BtSignal ==
  /\ mode = "bt" /\ pc = "signal"
  /\ out' = [score |-> score, signal |-> SignalBt(score)]
  /\ pc' = "done"
  /\ UNCHANGED <<mode, inp, loc, score, factors, convictionFactors>>

NextBt ==
  \/ BtStart \/ BtForeign \/ BtBandar \/ BtLots \/ BtSidStep \/ BtQueueStep
  \/ BtPrice \/ BtReturn \/ BtSignal

InitBt ==
  /\ mode = "bt" /\ pc = "entry"
  /\ inp = NoValue /\ loc = NoValue /\ score = 0 /\ factors = <<>>
  /\ convictionFactors = <<>> /\ out = NoValue

Init == InitV1 \/ InitV3 \/ InitBt
Next == NextV1 \/ NextV3 \/ NextBt
Spec == Init /\ [][Next]_vars

-----------------------------------------------------------------------------
(* fix_server.cjs : analyzeRedFlags(symbol, price, indicators, brokerSummary) *)
(* price.change_pct in tenths of a percent, volumes in lots                *)

\* a field of `indicators` that is undefined
Missing == [present |-> FALSE]

\* (volumeAnalysis?.totalVolume || 0) and (volumeAnalysis?.averageVolume || 1)
VolRatioNum(volumeAnalysis) ==
  IF volumeAnalysis.present THEN volumeAnalysis.totalVolume ELSE 0
VolRatioDen(volumeAnalysis) ==
  IF volumeAnalysis.present /\ volumeAnalysis.averageVolume # 0
  THEN volumeAnalysis.averageVolume ELSE 1

Flag(type, severity) == [type |-> type, severity |-> severity]

\* a distribution check that fires only above three times the average
DistributionFlag_Above3(redFlags, volumeAnalysis, priceChange) ==
  IF VolRatioNum(volumeAnalysis) > 3 * VolRatioDen(volumeAnalysis) /\ priceChange < 0
  THEN Append(redFlags, Flag("DISTRIBUTION", "HIGH")) ELSE redFlags

\* lines 434-443
DistributionFlag(redFlags, volumeAnalysis, priceChange) ==
  IF VolRatioNum(volumeAnalysis) > 2 * VolRatioDen(volumeAnalysis) /\ priceChange < 0
  THEN Append(redFlags, Flag("DISTRIBUTION", "HIGH")) ELSE redFlags

\* brokerSummary.filter(b => (b.netValue || 0) < 0).length
RECURSIVE CountSelling(_)
CountSelling(netValues) ==
  IF netValues = <<>> THEN 0
  ELSE (IF Head(netValues) < 0 THEN 1 ELSE 0) + CountSelling(Tail(netValues))

\* lines 446-457
BroaderSellingFlag(redFlags, netValues) ==
  IF CountSelling(netValues) >= 3
  THEN Append(redFlags, Flag("BROADER_SELLING", "HIGH")) ELSE redFlags

\* lines 460-468
ForeignExodusFlag(redFlags, foreignStreak) ==
  IF foreignStreak.present /\ foreignStreak.detected /\ foreignStreak.consecutiveDays <= -10
  THEN Append(redFlags, Flag("FOREIGN_EXODUS", "CRITICAL")) ELSE redFlags

\* lines 471-479
WeakRallyFlag(redFlags, volumeAnalysis, priceChange) ==
  IF priceChange > 20 /\ 10 * VolRatioNum(volumeAnalysis) < 8 * VolRatioDen(volumeAnalysis)
  THEN Append(redFlags, Flag("WEAK_RALLY", "MEDIUM")) ELSE redFlags

\* lines 482-495
PumpAndDumpFlag(redFlags, volumeAnalysis, priceChange, brokerConcentration, foreignFlow) ==
  IF priceChange > 50 /\ VolRatioNum(volumeAnalysis) > 2 * VolRatioDen(volumeAnalysis)
  THEN LET hasBrokerAccumulation ==
             brokerConcentration.present /\ brokerConcentration.detected
           hasForeignBuying == foreignFlow.present /\ foreignFlow.netValue > 0
       IN  IF ~hasBrokerAccumulation /\ ~hasForeignBuying
           THEN Append(redFlags, Flag("PUMP_AND_DUMP", "HIGH")) ELSE redFlags
  ELSE redFlags

\* redFlags.some(f => f.severity === severity)
Some(redFlags, severity) == \E i \in 1..Len(redFlags) : redFlags[i].severity = severity

\* a ladder that asks for MEDIUM first
RiskLevel_MediumFirst(redFlags) ==
  IF Some(redFlags, "MEDIUM") THEN "MEDIUM"
  ELSE IF Some(redFlags, "HIGH") THEN "HIGH"
  ELSE IF Some(redFlags, "CRITICAL") THEN "CRITICAL" ELSE "LOW"

\* lines 501-503
RiskLevel(redFlags) ==
  IF Some(redFlags, "CRITICAL") THEN "CRITICAL"
  ELSE IF Some(redFlags, "HIGH") THEN "HIGH"
  ELSE IF Some(redFlags, "MEDIUM") THEN "MEDIUM" ELSE "LOW"

\* lines 497-504
ReturnRedFlags(redFlags) ==
  [hasRedFlags |-> Len(redFlags) > 0, count |-> Len(redFlags), flags |-> redFlags,
   riskLevel |-> RiskLevel(redFlags)]

\* brokerSummary lists of at most this many brokers
MaxSummary == 3

RfChangePcts == {-40, -1, 0, 20, 21, 50, 51}
RfVolumeAnalyses ==
  {Missing} \cup
  { [present |-> TRUE, totalVolume |-> t, averageVolume |-> a] :
      t \in {0, 2, 3, 7, 9}, a \in {0, 3} }
RfNetValues == SeqsUpTo({-1, 0, 1}, MaxSummary)
RfForeignStreaks ==
  {Missing} \cup
  { [present |-> TRUE, detected |-> d, consecutiveDays |-> n] :
      d \in BOOLEAN, n \in {-11, -10, -9, 5} }
RfBrokerConcentrations == {Missing} \cup { [present |-> TRUE, detected |-> d] : d \in BOOLEAN }
RfForeignFlows == {Missing} \cup { [present |-> TRUE, netValue |-> v] : v \in {-1, 0, 1} }

RfStep(next, redFlags) ==
  /\ pc' = next /\ loc' = [redFlags |-> redFlags]
  /\ UNCHANGED <<mode, inp, score, factors, convictionFactors, out>>

\* lines 428-431
RfStart == mode = "rf" /\ pc = "entry" /\ RfStep("distribution", <<>>)

RfDistribution ==
  /\ mode = "rf" /\ pc = "distribution"
  /\ RfStep("selling", DistributionFlag(loc.redFlags, inp.volumeAnalysis, inp.change_pct))

RfBroaderSelling ==
  /\ mode = "rf" /\ pc = "selling"
  /\ \E netValues \in RfNetValues : RfStep("exodus", BroaderSellingFlag(loc.redFlags, netValues))

RfForeignExodus ==
  /\ mode = "rf" /\ pc = "exodus"
  /\ \E fs \in RfForeignStreaks : RfStep("rally", ForeignExodusFlag(loc.redFlags, fs))

RfWeakRally ==
  /\ mode = "rf" /\ pc = "rally"
  /\ RfStep("pump", WeakRallyFlag(loc.redFlags, inp.volumeAnalysis, inp.change_pct))

RfPumpAndDump ==
  /\ mode = "rf" /\ pc = "pump"
  /\ \E bc \in RfBrokerConcentrations, ff \in RfForeignFlows :
       RfStep("return", PumpAndDumpFlag(loc.redFlags, inp.volumeAnalysis, inp.change_pct, bc, ff))

RfReturn ==
  /\ mode = "rf" /\ pc = "return"
  /\ out' = ReturnRedFlags(loc.redFlags)
  /\ pc' = "done"
  /\ UNCHANGED <<mode, inp, loc, score, factors, convictionFactors>>

NextRf ==
  \/ RfStart \/ RfDistribution \/ RfBroaderSelling \/ RfForeignExodus
  \/ RfWeakRally \/ RfPumpAndDump \/ RfReturn

InitRf ==
  /\ mode = "rf" /\ pc = "entry"
  /\ inp \in { [change_pct |-> c, volumeAnalysis |-> va] :
                 c \in RfChangePcts, va \in RfVolumeAnalyses }
  /\ loc = NoValue /\ score = 0 /\ factors = <<>> /\ convictionFactors = <<>>
  /\ out = NoValue

SpecRedFlags == InitRf /\ [][NextRf]_vars

-----------------------------------------------------------------------------
(* Properties of analyzeRedFlags *)

\* CRITICAL > HIGH > MEDIUM (> LOW, the level of no flag)
Severity(level) ==
  CASE level = "LOW" -> 0 [] level = "MEDIUM" -> 1 [] level = "HIGH" -> 2
    [] level = "CRITICAL" -> 3

\* C9: riskLevel is the maximum severity among the detected flags, LOW exactly
\* when there is none; count is the number of flags and hasRedFlags is true
\* exactly when count > 0.
C9_RiskIsMaxSeverity ==
  (mode = "rf" /\ Returned) =>
    /\ out.count = Len(out.flags)
    /\ out.hasRedFlags <=> out.count > 0
    /\ out.riskLevel = "LOW" <=> out.flags = <<>>
    /\ \A i \in 1..Len(out.flags) : Severity(out.flags[i].severity) <= Severity(out.riskLevel)
    /\ out.flags # <<>> => \E i \in 1..Len(out.flags) : out.flags[i].severity = out.riskLevel

\* a CRITICAL flag reported together with a MEDIUM one
C9_Witness ==
  /\ mode = "rf" /\ Returned /\ out.riskLevel = "CRITICAL" /\ out.count >= 2
  /\ Some(out.flags, "MEDIUM")

HasFlag(flags, type) == \E i \in 1..Len(flags) : flags[i].type = type

\* C10: whenever totalVolume / averageVolume is above 2.0 (averageVolume > 0)
\* and the price change is negative, a DISTRIBUTION flag is reported and the
\* riskLevel is HIGH or CRITICAL, whatever the other indicator fields are.
C10_DistributionIsHighRisk ==
  (/\ mode = "rf" /\ Returned
   /\ inp.volumeAnalysis.present
   /\ inp.volumeAnalysis.averageVolume > 0
   /\ inp.volumeAnalysis.totalVolume > 2 * inp.volumeAnalysis.averageVolume
   /\ inp.change_pct < 0)
  => /\ HasFlag(out.flags, "DISTRIBUTION")
     /\ out.riskLevel \in {"HIGH", "CRITICAL"}

\* ratio 3.0 and change -4% with nothing else flagged
C10_Witness ==
  /\ mode = "rf" /\ Returned
  /\ inp.volumeAnalysis.present /\ inp.volumeAnalysis.averageVolume = 3
  /\ inp.volumeAnalysis.totalVolume = 9 /\ inp.change_pct = -40
  /\ out.count = 1 /\ HasFlag(out.flags, "DISTRIBUTION") /\ out.riskLevel = "HIGH"

-----------------------------------------------------------------------------
(* server.js : generateBandarIndicators(symbol, priceData) and its helpers *)
(* values in money units, volumes in lots, change_pct in tenths of a       *)
(* percent                                                                 *)

FOREIGN_BROKERS == {"AK", "BK", "KZ", "YP", "GR", "AI", "ZZ", "YU", "CC"}
BANDAR_BROKERS == {"YU", "CC", "SQ", "NI", "OD", "GW", "BK", "AK", "PD", "XL"}

\* a column of a row that is SQL NULL; a local that is null
Null == [kind |-> "null", n |-> 0, d |-> 1]

\* parseInt(column) || 0 : the integer part of a number, 0 for NULL
ParseIntOr0(column) ==
  IF column.kind = "null" THEN 0
  ELSE IF column.n >= 0 THEN column.n \div column.d ELSE -((-column.n) \div column.d)

\* parseFloat(x.toFixed(2))
ToFixed2(x) == Frac(Round(Frac(x.n * 100, x.d)), 100)

\* parseFloat(x.toFixed(2)) of a JavaScript number
JsToFixed2(x) == IF IsFinite(x) THEN ToFixed2(x) ELSE x

\* one row of broker_transactions joined with brokers
Tx(code, buy_volume, buy_value, sell_volume, sell_value) ==
  [code |-> code, buy_volume |-> buy_volume, buy_value |-> buy_value,
   sell_volume |-> sell_volume, sell_value |-> sell_value]

\* lines 344-354: the brokerSummary element of a row
SummaryOf(tx) ==
  [code |-> tx.code,
   buyVolume |-> ParseIntOr0(tx.buy_volume), buyValue |-> ParseIntOr0(tx.buy_value),
   sellVolume |-> ParseIntOr0(tx.sell_volume), sellValue |-> ParseIntOr0(tx.sell_value),
   netVolume |-> ParseIntOr0(tx.buy_volume) - ParseIntOr0(tx.sell_volume),
   netValue |-> ParseIntOr0(tx.buy_value) - ParseIntOr0(tx.sell_value),
   isForeign |-> tx.code \in FOREIGN_BROKERS]

\* lines 323-364: the sums and lists built from the rows, in row order
RECURSIVE RowLoop(_, _)
RowLoop(transactions, acc) ==
  IF transactions = <<>> THEN acc
  ELSE LET b == SummaryOf(Head(transactions))
           f == IF b.isForeign THEN 1 ELSE 0
       IN  RowLoop(Tail(transactions),
             [totalBuyVolume |-> acc.totalBuyVolume + b.buyVolume,
              totalBuyValue |-> acc.totalBuyValue + b.buyValue,
              totalSellVolume |-> acc.totalSellVolume + b.sellVolume,
              totalSellValue |-> acc.totalSellValue + b.sellValue,
              foreignBuyVolume |-> acc.foreignBuyVolume + f * b.buyVolume,
              foreignBuyValue |-> acc.foreignBuyValue + f * b.buyValue,
              foreignSellVolume |-> acc.foreignSellVolume + f * b.sellVolume,
              foreignSellValue |-> acc.foreignSellValue + f * b.sellValue,
              brokerSummary |-> Append(acc.brokerSummary, b),
              bandarBrokerActivity |->
                IF b.code \in BANDAR_BROKERS \/ Abs(b.buyValue - b.sellValue) > 10000
                THEN Append(acc.bandarBrokerActivity,
                            [code |-> b.code, netValue |-> b.netValue, isForeign |-> b.isForeign])
                ELSE acc.bandarBrokerActivity])

\* lines 282-295
RowLoopStart ==
  [totalBuyVolume |-> 0, totalBuyValue |-> 0, totalSellVolume |-> 0, totalSellValue |-> 0,
   foreignBuyVolume |-> 0, foreignBuyValue |-> 0, foreignSellVolume |-> 0,
   foreignSellValue |-> 0, brokerSummary |-> <<>>, bandarBrokerActivity |-> <<>>]

\* the detector with its earlier lower threshold of 2x
VolumeSpikeOf_From2(spikeRatio) ==
  IF ~FracLT(spikeRatio, 2, 1) /\ FracLT(spikeRatio, 3, 1)
  THEN [detected |-> TRUE, ratio |-> JsToFixed2(spikeRatio),
        severity |-> IF ~FracLT(spikeRatio, 5, 2) THEN "HIGH" ELSE "MODERATE",
        signal |-> "STEALTH_ACCUMULATION"]
  ELSE IF ~FracLT(spikeRatio, 3, 1)
  THEN [detected |-> TRUE, ratio |-> JsToFixed2(spikeRatio), severity |-> "EXTREME",
        signal |-> "BREAKOUT"]
  ELSE [detected |-> FALSE, ratio |-> JsToFixed2(spikeRatio), severity |-> "NONE",
        signal |-> "NORMAL"]

\* lines 378-412; avgVolume20d and currentVolume are display copies
VolumeSpikeOf(spikeRatio) ==
  IF ~FracLT(spikeRatio, 3, 2) /\ FracLT(spikeRatio, 3, 1)
  THEN [detected |-> TRUE, ratio |-> JsToFixed2(spikeRatio),
        severity |-> IF ~FracLT(spikeRatio, 5, 2) THEN "HIGH" ELSE "MODERATE",
        signal |-> "STEALTH_ACCUMULATION"]
  ELSE IF ~FracLT(spikeRatio, 3, 1)
  THEN [detected |-> TRUE, ratio |-> JsToFixed2(spikeRatio), severity |-> "EXTREME",
        signal |-> "BREAKOUT"]
  ELSE [detected |-> FALSE, ratio |-> JsToFixed2(spikeRatio), severity |-> "NONE",
        signal |-> "NORMAL"]

\* line 416: const recentVolumes = volumes.slice(-5), the last five elements
\* of the array
RecentVolumes(volumes) == LastK(volumes, 5)

\* a count of the days below the plain average
DryUpDays_BelowAverage(first3) ==
  Cardinality({i \in 1..Len(first3) : 3 * first3[i] < SumSeq(first3)})

\* recentVolumes.slice(0, 3).filter(v => v < recentAvg * 0.7).length
DryUpDays(first3) ==
  Cardinality({i \in 1..Len(first3) : 30 * first3[i] < 7 * SumSeq(first3)})

\* lines 415-454
VolumeDryUpOf(volumes, spikeRatio) ==
  LET recentVolumes == RecentVolumes(volumes)
      dryUpDays == DryUpDays(Take(recentVolumes, 3))
      isDryUp == dryUpDays >= 2
      surgeDetected == ~FracLT(spikeRatio, 13, 10) /\ isDryUp
  IN  IF isDryUp /\ surgeDetected
      THEN [detected |-> TRUE, signal |-> "VDU_BREAKOUT", severity |-> "HIGH",
            dryUpDays |-> dryUpDays,
            confidence |->
              LET c == FracAdd(FInt(50 + dryUpDays * 15), FracMul(spikeRatio, FInt(10)))
              IN  IF FracGT(c, 95, 1) THEN FInt(95) ELSE c]
      ELSE IF isDryUp
      THEN [detected |-> TRUE, signal |-> "VDU_ACCUMULATING", severity |-> "MODERATE",
            dryUpDays |-> dryUpDays, confidence |-> FInt(Min(80, 30 + dryUpDays * 15))]
      ELSE [detected |-> FALSE, signal |-> "NORMAL", severity |-> "NONE"]

\* a ratio that divides whatever the average is
SpikeRatio_Unguarded(currentTotalVolume, avgVolume) ==
  JsDiv(FInt(currentTotalVolume), avgVolume)

\* line 380: const spikeRatio = avgVolume > 0 ? currentTotalVolume / avgVolume : 1
SpikeRatio(currentTotalVolume, avgVolume) ==
  IF avgVolume.n > 0 THEN JsDiv(FInt(currentTotalVolume), avgVolume) ELSE FInt(1)

\* lines 371-455: avgVolume, spikeRatio, volumeSpike and volumeDryUp from the
\* volume history
VolumeDetectors(volume, volumes, currentTotalVolume) ==
  IF Len(volumes) > 3
  THEN LET avgVolume == Frac(SumSeq(volumes), Len(volumes))
           spikeRatio == SpikeRatio(currentTotalVolume, avgVolume)
       IN  [avgVolume |-> avgVolume,
            spikeRatio |-> spikeRatio,
            volumeSpike |-> VolumeSpikeOf(spikeRatio),
            volumeDryUp |->
              IF Len(volumes) >= 5 THEN VolumeDryUpOf(volumes, spikeRatio) ELSE Null]
  ELSE [avgVolume |-> FInt(volume), volumeSpike |-> Null, volumeDryUp |-> Null]

\* lines 300-307
NoImbalance ==
  [detected |-> FALSE, ratio |-> FInt(1), signal |-> "NEUTRAL", severity |-> "NONE",
   buyPressure |-> 0]

\* the ratio taken the other way round: ask over bid
BidAskRatio_AskOverBid(totalBidVolume, totalAskVolume) ==
  IF totalBidVolume > 0 THEN JsDiv(FInt(totalAskVolume), FInt(totalBidVolume)) ELSE FInt(1)

\* line 462: totalAskVolume > 0 ? totalBidVolume / totalAskVolume : 1
BidAskRatio(totalBidVolume, totalAskVolume) ==
  IF totalAskVolume > 0 THEN JsDiv(FInt(totalBidVolume), FInt(totalAskVolume)) ELSE FInt(1)

\* line 465: bidAskRatio > 1.15
AboveAccumulationThreshold(bidAskRatio) == FracGT(bidAskRatio, 115, 100)

\* line 479: bidAskRatio < 0.85
BelowDistributionThreshold(bidAskRatio) == FracLT(bidAskRatio, 85, 100)

\* lines 460-487
BidAskImbalanceOf(totalBuyVolume, totalSellVolume, priceChange) ==
  LET bidAskRatio == BidAskRatio(totalBuyVolume, totalSellVolume)
      found == [NoImbalance EXCEPT
                  !.detected = TRUE,
                  !.ratio = ToFixed2(bidAskRatio),
                  !.buyPressure = Round(FracMul(FracAdd(bidAskRatio, FInt(-1)), FInt(100)))]
  IN  IF AboveAccumulationThreshold(bidAskRatio) /\ priceChange <= 20
      THEN IF priceChange < -5 /\ FracGT(bidAskRatio, 13, 10)
           THEN [found EXCEPT !.signal = "STEALTH_ACCUMULATION", !.severity = "HIGH"]
           ELSE IF Abs(priceChange) <= 20
           THEN [found EXCEPT !.signal = "HIDDEN_SUPPORT",
                              !.severity = IF FracGT(bidAskRatio, 3, 2) THEN "HIGH"
                                           ELSE "MODERATE"]
           ELSE found
      ELSE IF BelowDistributionThreshold(bidAskRatio) /\ priceChange >= -20
      THEN [found EXCEPT !.signal = "DISTRIBUTION", !.severity = "HIGH"]
      ELSE NoImbalance

\* Math.max(b.buyVolume, b.sellVolume) summed over a filtered summary
RECURSIVE SumMaxVolume(_)
SumMaxVolume(bs) ==
  IF bs = <<>> THEN 0
  ELSE Max(Head(bs).buyVolume, Head(bs).sellVolume) + SumMaxVolume(Tail(bs))

RECURSIVE SumMaxValue(_)
SumMaxValue(bs) ==
  IF bs = <<>> THEN 0
  ELSE Max(Head(bs).buyValue, Head(bs).sellValue) + SumMaxValue(Tail(bs))

RECURSIVE Codes(_)
Codes(bs) == IF bs = <<>> THEN <<>> ELSE <<Head(bs).code>> \o Codes(Tail(bs))

\* lines 490-500 with largeLotThreshold, lines 512-521 with negoThreshold
LargeLots(brokerSummary) ==
  LET largeLotTransactions ==
        SelectSeq(brokerSummary, LAMBDA b : b.buyValue > 1000 \/ b.sellValue > 1000)
  IN  [count |-> Len(largeLotTransactions), volume |-> SumMaxVolume(largeLotTransactions),
       value |-> SumMaxValue(largeLotTransactions), brokers |-> Codes(largeLotTransactions)]

RECURSIVE SumNegoVolume(_)
SumNegoVolume(bs) ==
  IF bs = <<>> THEN 0
  ELSE (IF Head(bs).buyValue > 5000 THEN Head(bs).buyVolume ELSE Head(bs).sellVolume)
       + SumNegoVolume(Tail(bs))

TransaksiNego(brokerSummary) ==
  LET transaksiNegoList ==
        SelectSeq(brokerSummary, LAMBDA b : b.buyValue > 5000 \/ b.sellValue > 5000)
  IN  [volume |-> SumNegoVolume(transaksiNegoList), value |-> SumMaxValue(transaksiNegoList),
       count |-> Len(transaksiNegoList), brokers |-> Codes(transaksiNegoList)]

\* lines 503-506
QueueManipulation(totalBuyVolume, totalSellVolume) ==
  LET buySellRatio ==
        Frac(totalBuyVolume, IF totalSellVolume = 0 THEN 1 ELSE totalSellVolume)
      raw == IF FracGT(buySellRatio, 1, 1)
             THEN FracMul(FracAdd(buySellRatio, FInt(-1)), FInt(50))
             ELSE FracMul(FracAdd(FInt(1), FracMul(buySellRatio, FInt(-1))), FInt(50))
  IN  IF FracGT(raw, 100, 1) THEN FInt(100) ELSE IF FracLT(raw, 0, 1) THEN Zero ELSE raw

\* lines 308-314
NoForeignStreak ==
  [detected |-> FALSE, consecutiveDays |-> 0, totalNetValue |-> 0, signal |-> "NEUTRAL"]

\* the for loop of lines 535-543: the leading days with netValue > 0, a day
\* being parseFloat(day.foreign_net_value) || 0
RECURSIVE LeadingBuys(_)
LeadingBuys(history) ==
  IF history = <<>> \/ ~(Head(history) > 0) THEN <<>>
  ELSE <<Head(history)>> \o LeadingBuys(Tail(history))

\* the for loop of lines 559-567: the leading days with netValue < 0
RECURSIVE LeadingSells(_)
LeadingSells(history) ==
  IF history = <<>> \/ ~(Head(history) < 0) THEN <<>>
  ELSE <<Head(history)>> \o LeadingSells(Tail(history))

\* a detector that takes a history of any length and a run of one day
DetectForeignStreak_AnyRun(foreignFlowHistory) ==
  LET buys  == LeadingBuys(foreignFlowHistory)
      sells == LeadingSells(foreignFlowHistory)
  IN  IF Len(buys) >= 1
      THEN [detected |-> TRUE, consecutiveDays |-> Len(buys), totalNetValue |-> SumSeq(buys),
            signal |-> "MODERATE_BULLISH"]
      ELSE IF Len(sells) >= 1
      THEN [detected |-> TRUE, consecutiveDays |-> -Len(sells),
            totalNetValue |-> SumSeq(sells), signal |-> "BEARISH"]
      ELSE NoForeignStreak

\* lines 531-578: foreignStreak after the block, for whole-unit net values
DetectForeignStreak(foreignFlowHistory) ==
  IF Len(foreignFlowHistory) >= 5
  THEN LET buys == LeadingBuys(foreignFlowHistory)
           consecutiveBuys == Len(buys)
       IN  IF consecutiveBuys >= 2
           THEN [detected |-> TRUE, consecutiveDays |-> consecutiveBuys,
                 totalNetValue |-> SumSeq(buys),
                 signal |-> IF consecutiveBuys >= 5 THEN "STRONG_BULLISH"
                            ELSE IF consecutiveBuys >= 3 THEN "BULLISH"
                            ELSE "MODERATE_BULLISH"]
           ELSE IF consecutiveBuys = 0
           THEN LET sells == LeadingSells(foreignFlowHistory)
                    consecutiveSells == Len(sells)
                IN  IF consecutiveSells >= 2
                    THEN [detected |-> TRUE, consecutiveDays |-> -consecutiveSells,
                          totalNetValue |-> SumSeq(sells),
                          signal |-> IF consecutiveSells >= 5 THEN "STRONG_BEARISH"
                                     ELSE "BEARISH"]
                    ELSE NoForeignStreak
           ELSE NoForeignStreak
  ELSE NoForeignStreak

\* lines 315-321
NoConcentration ==
  [detected |-> FALSE, dominantBrokers |-> <<>>, concentrationDays |-> 0,
   signal |-> "NEUTRAL"]

\* one row of the concentration history
Rec(date, code, net_value) == [date |-> date, code |-> code, net_value |-> net_value]

\* Object.keys(dailyTops).sort().slice(-7), oldest first
RECURSIVE Ascending(_)
Ascending(S) ==
  IF S = {} THEN <<>>
  ELSE LET m == CHOOSE x \in S : \A y \in S : x <= y
       IN  <<m>> \o Ascending(S \ {m})

LastDates(brokerHistory) ==
  LastK(Ascending({brokerHistory[i].date : i \in 1..Len(brokerHistory)}), 7)

\* lines 603-605: the top 3 of one date, positive net values only
Top3Of(brokerHistory, date) ==
  LET day == SelectSeq(brokerHistory, LAMBDA r : r.date = date)
      keyed == [i \in 1..Len(day) |->
                  [code |-> day[i].code, netValue |-> day[i].net_value,
                   key |-> day[i].net_value]]
  IN  SelectSeq(Take(SortDescKeyed(keyed), 3), LAMBDA b : b.netValue > 0)

RECURSIVE AllTops(_, _)
AllTops(brokerHistory, dates) ==
  IF dates = <<>> THEN <<>>
  ELSE Top3Of(brokerHistory, Head(dates)) \o AllTops(brokerHistory, Tail(dates))

\* the keys of brokerAppearanceCount in insertion order
RECURSIVE FirstSeen(_, _)
FirstSeen(tops, seen) ==
  IF tops = <<>> THEN seen
  ELSE FirstSeen(Tail(tops),
                 IF \E i \in 1..Len(seen) : seen[i] = Head(tops).code THEN seen
                 ELSE Append(seen, Head(tops).code))

\* lines 586-636: brokerConcentration after the block
DetectConcentration(brokerHistory) ==
  LET tops == AllTops(brokerHistory, LastDates(brokerHistory))
      codes == FirstSeen(tops, <<>>)
      brokerAppearanceCount ==
        [i \in 1..Len(codes) |->
           LET mine == SelectSeq(tops, LAMBDA b : b.code = codes[i])
           IN  [code |-> codes[i], daysActive |-> Len(mine),
                totalNetValue |-> SumSeq([j \in 1..Len(mine) |-> mine[j].netValue]),
                key |-> Len(mine)]]
      dominantBrokers ==
        Take(SortDescKeyed(SelectSeq(brokerAppearanceCount, LAMBDA e : e.daysActive >= 2)), 3)
  IN  IF Len(brokerHistory) > 0 /\ Len(dominantBrokers) > 0
      THEN [detected |-> TRUE,
            dominantBrokers |->
              [i \in 1..Len(dominantBrokers) |->
                 [code |-> dominantBrokers[i].code,
                  daysActive |-> dominantBrokers[i].daysActive,
                  totalNetValue |-> dominantBrokers[i].totalNetValue]],
            concentrationDays |-> dominantBrokers[1].daysActive,
            signal |->
              IF Len(dominantBrokers) = 1 /\ dominantBrokers[1].daysActive >= 4
              THEN "HIGH_CONCENTRATION"
              ELSE IF Len(dominantBrokers) >= 2 THEN "COORDINATED_BUYING"
              ELSE "MODERATE_CONCENTRATION"]
      ELSE NoConcentration

\* x || y for numbers
OrElse(x, y) == IF x = 0 THEN y ELSE x

\* r.name, or the default of a destructuring / of `|| 0` when it is undefined
Field(r, name, default) == IF name \in DOMAIN r THEN r[name] ELSE default

\* x <= k for a JavaScript number (false for NaN)
JsLessEq(x, k) ==
  \/ x.kind = "-Inf"
  \/ x.kind = "num" /\ x.n <= k * x.d

Normal == [detected |-> FALSE, signal |-> "NORMAL"]

\* lines 819-928; prices in rupiah, change_pct in tenths of a percent
generatePriceActionIndicators(priceData, volumeAnalysis) ==
  LET currentPrice == priceData.close
      openPrice == OrElse(priceData.open, currentPrice)
      highPrice == OrElse(priceData.high, currentPrice)
      lowPrice == OrElse(priceData.low, currentPrice)
      priceChange == priceData.change_pct
      volume == priceData.volume
      avgVolume == OrElse(volumeAnalysis.averageVolume, volume)
      dailyRange == highPrice - lowPrice
      rangePct == JsTimes(JsDiv(FInt(dailyRange), FInt(currentPrice)), 100)
      breachedSupport == 100 * lowPrice < 97 * openPrice
      recoveredStrong == 100 * currentPrice > 102 * lowPrice /\ priceChange > -10
      volumeConfirmation == 10 * volume > 13 * avgVolume
      isPullback == priceChange < 0 /\ priceChange > -30
      lowVolume == 10 * volume < 7 * avgVolume
      bounceFromLow == JsTimes(JsDiv(FInt(currentPrice - lowPrice), FInt(lowPrice)), 200)
      heldLevel == JsGreater(bounceFromLow, 3) /\ 100 * lowPrice > 98 * openPrice
      previousClose == JsDiv(FInt(1000 * currentPrice), FInt(1000 + priceChange))
      gapPct ==
        IF IsFinite(previousClose)
        THEN JsTimes(JsDiv(FracAdd(FInt(openPrice), FracMul(previousClose, FInt(-1))),
                           previousClose), 100)
        ELSE [kind |-> "NaN", n |-> 0, d |-> 1]
      strongGap == JsGreater(gapPct, 1)
      sustained == currentPrice > openPrice /\ priceChange > 20
  IN  [priceChange |-> priceChange,
       dailyRange |-> dailyRange,
       rangePct |-> rangePct,
       priceCompression |->
         IF JsLessEq(rangePct, 2) /\ Abs(priceChange) <= 10
         THEN [detected |-> TRUE, signal |-> "COMPRESSION", rangePct |-> JsToFixed2(rangePct)]
         ELSE [detected |-> FALSE, signal |-> "NORMAL", rangePct |-> JsToFixed2(rangePct)],
       fakeBreakdown |->
         IF breachedSupport /\ recoveredStrong /\ volumeConfirmation
         THEN [detected |-> TRUE, signal |-> "BEAR_TRAP"] ELSE Normal,
       lowerHighPattern |->
         IF isPullback /\ lowVolume
         THEN [detected |-> TRUE, signal |-> "HEALTHY_PULLBACK"] ELSE Normal,
       floorDefense |->
         IF heldLevel /\ volumeConfirmation
         THEN [detected |-> TRUE, signal |-> "FLOOR_DEFENSE", defenseLevel |-> lowPrice]
         ELSE [detected |-> FALSE, signal |-> "NORMAL", defenseLevel |-> 0],
       gapUpBreakout |->
         IF strongGap /\ sustained /\ volumeConfirmation
         THEN [detected |-> TRUE, signal |-> "GAP_UP_BREAKOUT", gapPct |-> JsToFixed2(gapPct)]
         ELSE [detected |-> FALSE, signal |-> "NORMAL", gapPct |-> Zero]]

\* parseFloat(x.toFixed(3)) of a JavaScript number
JsToFixed3(x) ==
  IF IsFinite(x) THEN Frac(Round(Frac(x.n * 1000, x.d)), 1000) ELSE x

\* Math.round of a JavaScript number
JsRound(x) == IF IsFinite(x) THEN Frac(Round(x), 1) ELSE x

\* brokerSummary.reduce((sum, b) => sum + b.buyValue + b.sellValue, 0)
RECURSIVE SumBothValues(_)
SumBothValues(bs) ==
  IF bs = <<>> THEN 0
  ELSE Head(bs).buyValue + Head(bs).sellValue + SumBothValues(Tail(bs))

\* lines 728-740: volumeTrend in percent, priceTrend in tenths of a percent
Mfi(volumeTrend, priceTrend) ==
  LET half == FracMul(volumeTrend, Frac(1, 2))
      up   == FracAdd(FracAdd(FInt(50), half), Frac(priceTrend, 10))
      down == FracAdd(FracAdd(FInt(50), FracMul(half, FInt(-1))), Frac(priceTrend, 10))
  IN  IF FracGT(volumeTrend, 20, 1) /\ priceTrend > 0
      THEN IF FracGT(up, 80, 1) THEN FInt(80) ELSE up
      ELSE IF FracGT(volumeTrend, 20, 1) /\ priceTrend < 0
      THEN IF FracLT(down, 20, 1) THEN FInt(20) ELSE down
      ELSE FInt(50)

\* line 742
MfiSignal(mfi) ==
  IF FracGT(mfi, 70, 1) THEN "OVERBOUGHT" ELSE IF FracLT(mfi, 30, 1) THEN "OVERSOLD"
  ELSE IF FracGT(mfi, 50, 1) THEN "BULLISH" ELSE "BEARISH"

\* lines 745-765
ObvOf(volume, volumeTrend, priceTrend) ==
  [value |-> Round(Frac(IF priceTrend < 0 THEN -volume ELSE volume, 1000000)),
   divergence |->
     IF priceTrend < 0 /\ FracGT(volumeTrend, 10, 1)
     THEN [detected |-> TRUE, signal |-> "BULLISH_DIVERGENCE"]
     ELSE IF priceTrend > 0 /\ FracLT(volumeTrend, -10, 1)
     THEN [detected |-> TRUE, signal |-> "BEARISH_DIVERGENCE"]
     ELSE [detected |-> FALSE, signal |-> "NEUTRAL"]]

\* line 770: totalVolume > 0 ? totalValue / totalVolume / 100 : currentPrice,
\* totalValue in money units
QuantVwap(totalValue, totalVolume, currentPrice) ==
  IF totalVolume > 0 THEN PricePerShare(totalValue, totalVolume) ELSE FInt(currentPrice)

\* line 778: ((currentPrice - vwap) / vwap) * 100
PriceVsVwap(currentPrice, vwap) ==
  JsTimes(JsDiv(FracAdd(FInt(currentPrice), FracMul(vwap, FInt(-1))), vwap), 100)

\* lines 767-788
VwapOf(totalValue, totalVolume, currentPrice) ==
  LET vwap == QuantVwap(totalValue, totalVolume, currentPrice)
      priceVsVwap == PriceVsVwap(currentPrice, vwap)
  IN  [value |-> Round(vwap),
       priceVsVwap |-> JsToFixed2(priceVsVwap),
       reclaim |->
         IF JsGreater(priceVsVwap, 2) THEN [detected |-> TRUE, signal |-> "ABOVE_VWAP"]
         ELSE IF JsLess(priceVsVwap, -2) THEN [detected |-> TRUE, signal |-> "BELOW_VWAP"]
         ELSE [detected |-> FALSE, signal |-> "NEUTRAL"]]

\* lines 792-795
CmfOf(currentPrice, highPrice, lowPrice) ==
  LET moneyFlowMultiplier ==
        JsDiv(FInt((currentPrice - lowPrice) - (highPrice - currentPrice)),
              FInt(OrElse(highPrice - lowPrice, 1)))
      cmf == moneyFlowMultiplier
  IN  [value |-> JsToFixed3(cmf),
       signal |-> IF FracGT(cmf, 1, 10) THEN "BULLISH"
                  ELSE IF FracLT(cmf, -1, 10) THEN "BEARISH" ELSE "NEUTRAL"]

\* lines 719-816; volumeAnalysis.volumeVsAvg || 0 and
\* volumeAnalysis.totalVolume || volume
generateQuantitativeIndicators(priceData, brokerSummary, volumeAnalysis) ==
  LET currentPrice == priceData.close
      highPrice == OrElse(priceData.high, currentPrice)
      lowPrice == OrElse(priceData.low, currentPrice)
      volume == priceData.volume
      volumeTrend == Field(volumeAnalysis, "volumeVsAvg", Zero)
      priceTrend == priceData.change_pct
      mfi == Mfi(volumeTrend, priceTrend)
      totalVolume == OrElse(Field(volumeAnalysis, "totalVolume", 0), volume)
  IN  [mfi |-> [value |-> JsRound(mfi), signal |-> MfiSignal(mfi)],
       obv |-> ObvOf(volume, volumeTrend, priceTrend),
       vwap |-> VwapOf(SumBothValues(brokerSummary), totalVolume, currentPrice),
       cmf |-> CmfOf(currentPrice, highPrice, lowPrice)]

NoLots == [count |-> 0, volume |-> 0, value |-> 0, brokers |-> <<>>]
NoTotals ==
  [buyVolume |-> 0, buyValue |-> 0, sellVolume |-> 0, sellValue |-> 0,
   netVolume |-> 0, netValue |-> 0]
NoForeignFlow ==
  [buy |-> 0, sell |-> 0, net |-> 0, buyValue |-> 0, sellValue |-> 0, netValue |-> 0,
   buyBrokers |-> <<>>, sellBrokers |-> <<>>]
SpikeNormal == [detected |-> FALSE, ratio |-> FInt(1), severity |-> "NONE", signal |-> "NORMAL"]

\* lines 931-984 (symbol and date left out)
generateBasicIndicators(priceData) ==
  LET volume == priceData.volume
  IN  [foreignFlow |-> NoForeignFlow,
       brokerSummary |-> <<>>,
       bandarBrokers |-> <<>>,
       largeLotTransactions |-> NoLots,
       sidData |-> [count |-> 0, change |-> 0, changePct |-> Zero],
       queueManipulation |-> 50,
       runningTrades |-> 0,
       transaksiNego |-> NoLots,
       volumeAnalysis |->
         [totalVolume |-> volume, averageVolume |-> volume, volumeVsAvg |-> Zero,
          volumeSpike |-> SpikeNormal],
       priceAction |-> generatePriceActionIndicators(priceData, [averageVolume |-> volume]),
       totals |-> NoTotals]

\* bandarBrokerActivity.sort((a, b) => |b.netValue| - |a.netValue|).slice(0, 5)
BandarBrokers(bandarBrokerActivity) ==
  LET keyed == [i \in 1..Len(bandarBrokerActivity) |->
                  [code |-> bandarBrokerActivity[i].code,
                   netValue |-> bandarBrokerActivity[i].netValue,
                   isForeign |-> bandarBrokerActivity[i].isForeign,
                   key |-> Abs(bandarBrokerActivity[i].netValue)]]
      sorted == Take(SortDescKeyed(keyed), 5)
  IN  [i \in 1..Len(sorted) |->
         [code |-> sorted[i].code, netValue |-> sorted[i].netValue,
          isForeign |-> sorted[i].isForeign]]

\* the identifiers the object literal of lines 642-698 reads
ResultReferences ==
  {"symbol", "txDate", "foreignBuyVolume", "foreignSellVolume", "foreignNet",
   "foreignBuyValue", "foreignSellValue", "foreignNetValue", "brokerSummary",
   "bandarBrokerActivity", "largeLotTransactions", "largeLotVolume", "largeLotValue",
   "sidCount", "sidChange", "queueManipulation", "runningTrades", "transaksiNegoVolume",
   "transaksiNegoValue", "transaksiNegoList", "totalBuyVolume", "totalSellVolume",
   "totalBuyValue", "totalSellValue", "avgVolume", "volumeSpike", "volumeDryUp",
   "bidAskImbalance", "foreignStreak", "brokerConcentration", "priceData",
   "volumeAnalysis", "histVolumeData", "generatePriceActionIndicators",
   "generateQuantitativeIndicators"}

\* the identifiers in scope at line 642: the parameters, the locals declared
\* at lines 264-525 and the module's functions
InScope ==
  {"symbol", "priceData", "volume", "closePrice", "txData", "transactions", "txDate",
   "foreignBuyVolume", "foreignBuyValue", "foreignSellVolume", "foreignSellValue",
   "totalBuyVolume", "totalBuyValue", "totalSellVolume", "totalSellValue",
   "brokerSummary", "bandarBrokerActivity", "volumeSpike", "volumeDryUp",
   "bidAskImbalance", "foreignStreak", "brokerConcentration", "foreignNet",
   "foreignNetValue", "histVolumeData", "avgVolume", "totalBidVolume", "totalAskVolume",
   "bidAskRatio", "priceChange", "largeLotThreshold", "largeLotTransactions",
   "largeLotVolume", "largeLotValue", "buySellRatio", "queueManipulation",
   "runningTrades", "negoThreshold", "transaksiNegoList", "transaksiNegoVolume",
   "transaksiNegoValue", "sidCount", "sidChange", "generatePriceActionIndicators",
   "generateQuantitativeIndicators", "generateBasicIndicators"}

\* lines 642-698, l being the locals
Result(l, priceData, volumeAnalysis) ==
  [foreignFlow |->
     [buy |-> l.foreignBuyVolume, sell |-> l.foreignSellVolume,
      net |-> l.foreignBuyVolume - l.foreignSellVolume,
      buyValue |-> l.foreignBuyValue, sellValue |-> l.foreignSellValue,
      netValue |-> l.foreignBuyValue - l.foreignSellValue,
      buyBrokers |-> Codes(SelectSeq(l.brokerSummary, LAMBDA b : b.isForeign /\ b.buyValue > 0)),
      sellBrokers |->
        Codes(SelectSeq(l.brokerSummary, LAMBDA b : b.isForeign /\ b.sellValue > 0))],
   brokerSummary |-> Take(l.brokerSummary, 15),
   bandarBrokers |-> BandarBrokers(l.bandarBrokerActivity),
   largeLotTransactions |-> l.largeLots,
   sidData |-> [count |-> l.sidCount, change |-> l.sidChange,
                changePct |-> Frac(l.sidChange * 100, l.sidCount - l.sidChange)],
   queueManipulation |-> Round(l.queueManipulation),
   runningTrades |-> l.runningTrades,
   transaksiNego |-> l.transaksiNego,
   volumeAnalysis |->
     [totalVolume |-> l.totalBuyVolume + l.totalSellVolume,
      averageVolume |-> Round(l.avgVolume),
      volumeVsAvg |->
        IF l.avgVolume.n > 0
        THEN FracMul(FracAdd(FracDiv(FInt(l.totalBuyVolume + l.totalSellVolume), l.avgVolume),
                             FInt(-1)), FInt(100))
        ELSE Zero,
      volumeSpike |-> IF l.volumeSpike = Null THEN SpikeNormal ELSE l.volumeSpike,
      volumeDryUp |-> IF l.volumeDryUp = Null
                      THEN [detected |-> FALSE, signal |-> "NORMAL", severity |-> "NONE"]
                      ELSE l.volumeDryUp,
      bidAskImbalance |-> l.bidAskImbalance],
   foreignStreak |-> l.foreignStreak,
   brokerConcentration |-> l.brokerConcentration,
   priceAction |-> generatePriceActionIndicators(priceData, volumeAnalysis),
   quantitative |-> generateQuantitativeIndicators(priceData, l.brokerSummary, volumeAnalysis),
   totals |->
     [buyVolume |-> l.totalBuyVolume, buyValue |-> l.totalBuyValue,
      sellVolume |-> l.totalSellVolume, sellValue |-> l.totalSellValue,
      netVolume |-> l.totalBuyVolume - l.totalSellVolume,
      netValue |-> l.totalBuyValue - l.totalSellValue]]

\* scoring.js lines 5-8 and the optional chaining of lines 103-229: what
\* calculateBandarScore reads of a bundle built by server.js
Destructure(indicators) ==
  LET volumeAnalysis == indicators.volumeAnalysis
      priceAction == indicators.priceAction
  IN  [brokerSummary |-> indicators.brokerSummary,
       foreignFlow |-> indicators.foreignFlow,
       volumeAnalysis |->
         [totalVolume |-> volumeAnalysis.totalVolume,
          averageVolume |-> volumeAnalysis.averageVolume,
          volumeSpike |-> Field(volumeAnalysis, "volumeSpike", Absent),
          volumeDryUp |-> Field(volumeAnalysis, "volumeDryUp", Absent),
          bidAskImbalance |-> Field(volumeAnalysis, "bidAskImbalance", Absent)],
       foreignStreak |-> Field(indicators, "foreignStreak", Absent),
       brokerConcentration |-> Field(indicators, "brokerConcentration", Absent),
       priceAction |->
         [priceCompression |-> priceAction.priceCompression,
          fakeBreakdown |-> priceAction.fakeBreakdown,
          lowerHighPattern |-> priceAction.lowerHighPattern,
          floorDefense |-> priceAction.floorDefense,
          gapUpBreakout |-> priceAction.gapUpBreakout,
          changePct |-> Field(priceAction, "changePct", 0)]]

\* lines 711-715: the catch clause of a throwing step
OnError_Rethrow(priceData, message) ==
  [pc |-> "thrown", out |-> NoValue, error |-> message]

OnError(priceData, message) ==
  [pc |-> "done", out |-> generateBasicIndicators(priceData), error |-> message]

-----------------------------------------------------------------------------
(* Inputs of generateBandarIndicators *)

\* the longest foreign-flow history drawn in full
MaxHistory == 5

\* a price object of the API, as the two callers pass it
Price(close, open, high, low, change_pct, volume) ==
  [close |-> close, open |-> open, high |-> high, low |-> low,
   change_pct |-> change_pct, volume |-> volume, changePct |-> 0]

PriceDatas ==
  {Price(1000, 1000, 1010, 995, 0, 110), Price(0, 0, 0, 0, 0, 0),
   Price(1050, 1000, 1060, 960, 50, 500), Price(980, 1000, 1005, 975, -20, 40)}

\* what getBrokerTransactionsFromDB gives: a thrown error, null (no date), or
\* the rows of the latest date
TxResults ==
  {[kind |-> "throws", transactions |-> <<>>],
   [kind |-> "null", transactions |-> <<>>],
   [kind |-> "rows", transactions |-> <<>>],
   [kind |-> "rows", transactions |-> <<Tx("YU", FInt(60), FInt(6000), FInt(0), FInt(0))>>],
   [kind |-> "rows", transactions |->
      <<Tx("YU", FInt(60), FInt(6000), FInt(10), FInt(1000)),
        Tx("DX", FInt(10), FInt(1000), FInt(30), FInt(3000))>>],
   [kind |-> "rows", transactions |->
      <<Tx("AK", FInt(30), FInt(900), Null, Null),
        Tx("ZZ", Frac(25, 2), FInt(100), FInt(40), FInt(1200))>>],
   [kind |-> "rows", transactions |->
      <<Tx("DX", FInt(10), FInt(100), FInt(50), FInt(500))>>]}

\* what a history helper gives: a thrown error (no connection) or its rows,
\* [] when the query failed
Thrown == [kind |-> "throws", rows |-> <<>>]
Rows(r) == [kind |-> "rows", rows |-> r]

VolumeHistories ==
  {Thrown, Rows(<<>>), Rows(<<100, 100, 100>>), Rows(<<100, 100, 100, 100>>),
   Rows(<<10, 10, 100, 50, 50>>), Rows(<<0, 0, 0, 0>>), Rows(<<30, 30, 30, 30, 30>>)}

\* most recent day first; 0 is a day without foreign flow (or NULL)
ForeignFlowHistories ==
  {Thrown} \cup {Rows(h) : h \in SeqsUpTo({-2, 0, 5}, MaxHistory)}
           \cup {Rows(<<5, 3, -2, 10>>), Rows(<<5, 3, -2, 10, 1>>),
                 Rows(<<5, 5, 5, 5, 5, 5>>), Rows(<<-2, -2, -2, -2, -2, -2>>)}

ConcentrationHistories ==
  {Thrown, Rows(<<>>),
   Rows(<<Rec(1, "YU", 50), Rec(2, "YU", 40)>>),
   Rows(<<Rec(1, "YU", 50), Rec(2, "YU", 40), Rec(3, "YU", 10), Rec(4, "YU", 5)>>),
   Rows(<<Rec(1, "YU", 50), Rec(1, "CC", 60), Rec(2, "CC", 40), Rec(2, "YU", 45)>>),
   Rows(<<Rec(1, "YU", -50), Rec(2, "YU", 40)>>)}

\* Math.floor(1000 + Math.random() * 5000), Math.floor((Math.random() - 0.5) * 200)
SidDraws == {[sidCount |-> 1000, sidChange |-> -100], [sidCount |-> 5999, sidChange |-> 99]}

-----------------------------------------------------------------------------
(* generateBandarIndicators, one action per statement group; loc holds the  *)
(* locals and log the console.error lines                                  *)

GenStep(next, locals) ==
  /\ pc' = next /\ loc' = locals
  /\ UNCHANGED <<mode, inp, score, factors, convictionFactors, out>>

\* a step that leaves the try block by an error: lines 711-715
GenThrow(message) ==
  LET e == OnError(inp.priceData, message)
  IN  /\ pc' = e.pc /\ out' = e.out
      /\ loc' = [error |-> e.error] @@ loc
      /\ UNCHANGED <<mode, inp, score, factors, convictionFactors>>

\* lines 264-265
GenEntry ==
  /\ mode = "gen" /\ pc = "entry"
  /\ GenStep("tx", [volume |-> inp.priceData.volume, closePrice |-> inp.priceData.close,
                    log |-> <<>>, error |-> "none"])

\* lines 270-321
GenTx ==
  /\ mode = "gen" /\ pc = "tx"
  /\ \E txData \in TxResults :
       IF txData.kind = "throws" THEN GenThrow("connection")
       ELSE IF txData.kind = "null" \/ Len(txData.transactions) = 0
       THEN /\ out' = generateBasicIndicators(inp.priceData)
            /\ pc' = "done"
            /\ loc' = [transactions |-> <<>>] @@ loc
            /\ UNCHANGED <<mode, inp, score, factors, convictionFactors>>
       ELSE GenStep("rows",
              [transactions |-> txData.transactions, volumeSpike |-> Null,
               volumeDryUp |-> Null, bidAskImbalance |-> NoImbalance,
               foreignStreak |-> NoForeignStreak,
               brokerConcentration |-> NoConcentration] @@ loc)

\* lines 323-367
GenRows ==
  /\ mode = "gen" /\ pc = "rows"
  /\ GenStep("volume", RowLoop(loc.transactions, RowLoopStart) @@ loc)

\* lines 370-455
GenVolume ==
  /\ mode = "gen" /\ pc = "volume"
  /\ \E histVolumeData \in VolumeHistories :
       IF histVolumeData.kind = "throws" THEN GenThrow("connection")
       ELSE GenStep("bidask",
              VolumeDetectors(loc.volume, histVolumeData.rows,
                              loc.totalBuyVolume + loc.totalSellVolume)
              @@ [histVolumeData |-> histVolumeData.rows] @@ loc)

\* lines 457-487
GenBidAsk ==
  /\ mode = "gen" /\ pc = "bidask"
  /\ GenStep("lots",
       [bidAskRatio |-> BidAskRatio(loc.totalBuyVolume, loc.totalSellVolume),
        bidAskImbalance |->
          BidAskImbalanceOf(loc.totalBuyVolume, loc.totalSellVolume, inp.priceData.changePct)]
       @@ loc)

\* lines 489-525
GenLots ==
  /\ mode = "gen" /\ pc = "lots"
  /\ \E sid \in SidDraws :
       GenStep("foreignFetch",
         [largeLots |-> LargeLots(loc.brokerSummary),
          queueManipulation |-> QueueManipulation(loc.totalBuyVolume, loc.totalSellVolume),
          runningTrades |-> Len(loc.transactions) * 10,
          transaksiNego |-> TransaksiNego(loc.brokerSummary),
          sidCount |-> sid.sidCount, sidChange |-> sid.sidChange] @@ loc)

\* lines 529-530, and 579-581 when the helper throws
GenForeignFetch ==
  /\ mode = "gen" /\ pc = "foreignFetch"
  /\ \E history \in ForeignFlowHistories :
       IF history.kind = "throws"
       THEN GenStep("concentration",
              [log |-> Append(loc.log, "Error calculating foreign streak")] @@ loc)
       ELSE GenStep("foreignStreak", [foreignFlowHistory |-> history.rows] @@ loc)

\* lines 532-578
GenForeignStreak ==
  /\ mode = "gen" /\ pc = "foreignStreak"
  /\ GenStep("concentration",
       [foreignStreak |-> DetectForeignStreak(loc.foreignFlowHistory)] @@ loc)

\* lines 584-640; foreignFlowHistory is out of scope here
GenConcentration ==
  /\ mode = "gen" /\ pc = "concentration"
  /\ \E brokerHistory \in ConcentrationHistories :
       LET rest == [n \in DOMAIN loc \ {"foreignFlowHistory"} |-> loc[n]]
       IN  IF brokerHistory.kind = "throws"
           THEN GenStep("result",
                  [log |-> Append(loc.log, "Error calculating broker concentration")] @@ rest)
           ELSE GenStep("result",
                  [brokerConcentration |-> DetectConcentration(brokerHistory.rows)] @@ rest)

\* lines 642-710: the object literal reads its identifiers in order; one
\* that no scope declares raises a ReferenceError
GenResult ==
  /\ mode = "gen" /\ pc = "result"
  /\ IF ResultReferences \subseteq InScope
     THEN /\ out' = Result(loc, inp.priceData, [averageVolume |-> Round(loc.avgVolume)])
          /\ pc' = "done"
          /\ UNCHANGED <<mode, inp, loc, score, factors, convictionFactors>>
     ELSE GenThrow("ReferenceError")

\* lines 1007-1008 and 1068-1069: the caller scores the bundle
GenScore ==
  /\ mode = "gen" /\ pc = "done"
  /\ GenStep("scored",
       [scoreData |-> calculateBandarScore(inp.priceData, Destructure(out))] @@ loc)

NextGen ==
  \/ GenEntry \/ GenTx \/ GenRows \/ GenVolume \/ GenBidAsk \/ GenLots
  \/ GenForeignFetch \/ GenForeignStreak \/ GenConcentration \/ GenResult \/ GenScore

InitGen ==
  /\ mode = "gen" /\ pc = "entry"
  /\ inp \in { [priceData |-> p] : p \in PriceDatas }
  /\ loc = NoValue /\ score = 0 /\ factors = <<>> /\ convictionFactors = <<>>
  /\ out = NoValue

SpecIndicators == InitGen /\ [][NextGen]_vars

-----------------------------------------------------------------------------
(* generateQuantitativeIndicators on its own, one action per indicator *)

\* bars: flat and tight, no trading, a wide up day, a down day, high == low
QuantPrices ==
  PriceDatas \cup {Price(1000, 1000, 1000, 1000, 5, 200)}

\* no broker, a broker without value, and 110 money units over 1100 lots
QuantSummaries ==
  {<<>>, <<[buyValue |-> 0, sellValue |-> 0]>>, <<[buyValue |-> 60, sellValue |-> 50]>>}

\* volumeAnalysis: empty, all zero, and a total of 1100 lots at four trends
QuantVolumeAnalyses ==
  {[averageVolume |-> 0], [volumeVsAvg |-> Zero, totalVolume |-> 0]}
    \cup {[volumeVsAvg |-> FInt(t), totalVolume |-> 1100] : t \in {-15, 0, 25, 70}}

Quantitative == generateQuantitativeIndicators(inp.priceData, inp.brokerSummary, inp.volumeAnalysis)

\* lines 724-742
QuantMfi ==
  /\ mode = "quant" /\ pc = "entry"
  /\ GenStep("obv", [mfi |-> Quantitative.mfi])

\* lines 744-765
QuantObv ==
  /\ mode = "quant" /\ pc = "obv"
  /\ GenStep("vwap", [obv |-> Quantitative.obv] @@ loc)

\* lines 767-788
QuantVwapStep ==
  /\ mode = "quant" /\ pc = "vwap"
  /\ GenStep("cmf", [vwap |-> Quantitative.vwap] @@ loc)

\* lines 790-795
QuantCmf ==
  /\ mode = "quant" /\ pc = "cmf"
  /\ GenStep("return", [cmf |-> Quantitative.cmf] @@ loc)

\* lines 797-815
QuantReturn ==
  /\ mode = "quant" /\ pc = "return"
  /\ out' = [mfi |-> loc.mfi, obv |-> loc.obv, vwap |-> loc.vwap, cmf |-> loc.cmf]
  /\ pc' = "done"
  /\ UNCHANGED <<mode, inp, loc, score, factors, convictionFactors>>

NextQuant == QuantMfi \/ QuantObv \/ QuantVwapStep \/ QuantCmf \/ QuantReturn

InitQuant ==
  /\ mode = "quant" /\ pc = "entry"
  /\ inp \in { [priceData |-> p, brokerSummary |-> b, volumeAnalysis |-> va] :
                 p \in QuantPrices, b \in QuantSummaries, va \in QuantVolumeAnalyses }
  /\ loc = NoValue /\ score = 0 /\ factors = <<>> /\ convictionFactors = <<>>
  /\ out = NoValue

SpecQuant == InitQuant /\ [][NextQuant]_vars

\* C13 as stated: for every bar and broker summary the returned mfi.value is
\* finite and within 20..80, vwap.value, vwap.priceVsVwap and cmf.value are
\* finite, and cmf.value is 0 when high == low
C13_QuantFinite ==
  mode = "quant" /\ Returned =>
    /\ IsFinite(out.mfi.value) /\ FracGT(out.mfi.value, 19, 1) /\ FracLT(out.mfi.value, 81, 1)
    /\ out.vwap.value \in Int
    /\ IsFinite(out.vwap.priceVsVwap)
    /\ IsFinite(out.cmf.value)
    /\ inp.priceData.high = inp.priceData.low => out.cmf.value = Zero

-----------------------------------------------------------------------------
(* server.js : the average prices of the stock route and                   *)
(* calculateAverageBrokerCost                                              *)

\* line 1075: b.buyVolume > 0 ? Math.floor(b.buyValue / (b.buyVolume * 100)) : 0
avgBuyPrice(b) ==
  IF b.buyVolume > 0 THEN JsFloor(PricePerShare(b.buyValue, b.buyVolume)) ELSE 0

\* line 1076
avgSellPrice(b) ==
  IF b.sellVolume > 0 THEN JsFloor(PricePerShare(b.sellValue, b.sellVolume)) ELSE 0

\* lines 1072-1077 (name, a display text, left out)
enrichedBrokerSummary(brokerSummary) ==
  [i \in 1..Len(brokerSummary) |->
     [avgBuyPrice |-> avgBuyPrice(brokerSummary[i]),
      avgSellPrice |-> avgSellPrice(brokerSummary[i])] @@ brokerSummary[i]]

\* lines 1223-1235
calculateAverageBrokerCost(brokerSummary) ==
  IF TotalBuyLots(brokerSummary) > 0
  THEN JsFloor(PricePerShare(TotalBuyValue(brokerSummary), TotalBuyLots(brokerSummary)))
  ELSE 0

\* 10 lots bought for 1,000,000 IDR, a seller, and a broker on both sides
CostBrokers ==
  {Broker("YU", 10, 1, 0, 0), Broker("DX", 0, 0, 30, 7), Broker("CC", 30, 7, 10, 3)}

CostSummaries == SeqsUpTo(CostBrokers, MaxBrokers)

CostEnrich ==
  /\ mode = "cost" /\ pc = "entry"
  /\ GenStep("average", [enriched |-> enrichedBrokerSummary(inp.brokerSummary)])

CostAverage ==
  /\ mode = "cost" /\ pc = "average"
  /\ out' = calculateAverageBrokerCost(inp.brokerSummary)
  /\ pc' = "done"
  /\ UNCHANGED <<mode, inp, loc, score, factors, convictionFactors>>

NextCost == CostEnrich \/ CostAverage

InitCost ==
  /\ mode = "cost" /\ pc = "entry"
  /\ inp \in { [brokerSummary |-> b] : b \in CostSummaries }
  /\ loc = NoValue /\ score = 0 /\ factors = <<>> /\ convictionFactors = <<>>
  /\ out = NoValue

\* the cost basis of scoring.js and the average prices of server.js
SpecCost == (InitV1 \/ InitCost) /\ [][NextV1 \/ NextCost]_vars

\* the buy value and the buy lots of the brokers that bought
BoughtValue(bs) ==
  SumSeq([i \in 1..Len(bs) |-> IF bs[i].buyVolume > 0 THEN bs[i].buyValue ELSE 0])
BoughtLots(bs) ==
  SumSeq([i \in 1..Len(bs) |-> IF bs[i].buyVolume > 0 THEN bs[i].buyVolume ELSE 0])

\* value in money units over lots of 100 shares, in IDR per share
PerShare(value, lots) == Frac(value * (MoneyPerUnit \div 100), lots)

\* C14: avgBrokerCost of scoring.js is the buy value over (buy lots x 100) of
\* the brokers that bought, and avgBuyPrice, avgSellPrice and
\* calculateAverageBrokerCost of server.js are the whole part of value over
\* (lots x 100)
C14_LotSizeDivisor ==
  /\ mode = "v1" /\ Has("avgBrokerCost") /\ BoughtLots(inp.brokerSummary) > 0 =>
       loc.avgBrokerCost
         = PerShare(BoughtValue(inp.brokerSummary), BoughtLots(inp.brokerSummary))
  /\ mode = "cost" /\ Has("enriched") =>
       \A i \in 1..Len(inp.brokerSummary) :
         LET b == inp.brokerSummary[i]
         IN  /\ b.buyVolume > 0 =>
                  loc.enriched[i].avgBuyPrice = JsFloor(PerShare(b.buyValue, b.buyVolume))
             /\ b.sellVolume > 0 =>
                  loc.enriched[i].avgSellPrice = JsFloor(PerShare(b.sellValue, b.sellVolume))
  /\ mode = "cost" /\ Returned /\ BoughtLots(inp.brokerSummary) > 0 =>
       out = JsFloor(PerShare(BoughtValue(inp.brokerSummary), BoughtLots(inp.brokerSummary)))

C14_Witness ==
  /\ mode = "cost" /\ Returned
  /\ inp.brokerSummary = <<Broker("YU", 10, 1, 0, 0)>>
  /\ loc.enriched[1].avgBuyPrice = 1000
  /\ out = 1000

-----------------------------------------------------------------------------
(* fix_server.cjs : the cost-basis part of generateComprehensiveAnalysis    *)
(* and of generateBandarmologyAnalysis                                     *)

\* x >= k for a JavaScript number (false for NaN)
JsGreaterEq(x, k) ==
  \/ x.kind = "+Inf"
  \/ x.kind = "num" /\ x.n >= k * x.d

\* totalBuyVol > 0 ? Math.floor(totalBuyVal / (totalBuyVol * 100)) : currentPrice
avgCost(brokerSummary, currentPrice) ==
  IF TotalBuyLots(brokerSummary) > 0
  THEN Frac(JsFloor(PricePerShare(TotalBuyValue(brokerSummary), TotalBuyLots(brokerSummary))), 1)
  ELSE Frac(currentPrice, 1)

\* ((currentPrice - avgCost) / avgCost * 100)
PremiumOverCost(currentPrice, cost) ==
  JsTimes(JsDiv(Frac(currentPrice * cost.d - cost.n, cost.d), cost), 100)

\* the zone that reads every distance from the cost as a premium
Section2Zone_Abs(p) ==
  IF JsGreaterEq(JsAbs(p), 10) /\ JsLessEq(JsAbs(p), 15) THEN <<"SWEET SPOT">>
  ELSE IF JsGreater(JsAbs(p), 30) THEN <<"DANGER ZONE">>
  ELSE IF JsLess(p, -5) THEN <<"VALUE ZONE">>
  ELSE <<>>

\* lines 147-153: the zone lines pushed onto section2.content
Section2Zone(p) ==
  IF JsGreaterEq(p, 10) /\ JsLessEq(p, 15) THEN <<"SWEET SPOT">>
  ELSE IF JsGreater(p, 30) THEN <<"DANGER ZONE">>
  ELSE IF JsLess(p, -5) THEN <<"VALUE ZONE">>
  ELSE <<>>

\* lines 384-397: analysis.priceVsCost.status
PriceVsCostStatus(p) ==
  IF JsGreaterEq(p, 10) /\ JsLessEq(p, 20) THEN "SWEET_SPOT"
  ELSE IF JsGreater(p, 30) THEN "DANGER"
  ELSE IF JsLess(p, 0) THEN "VALUE"
  ELSE "EARLY"

\* lines 80-88: const avgCost, const premium
CaCost ==
  /\ mode = "analysis" /\ pc = "entry"
  /\ LET cost == avgCost(inp.brokerSummary, inp.close)
     IN  loc' = [avgCost |-> cost, premium |-> PremiumOverCost(inp.close, cost)]
  /\ pc' = "section2"
  /\ UNCHANGED <<mode, inp, score, factors, convictionFactors, out>>

\* lines 147-155
CaSection2 ==
  /\ mode = "analysis" /\ pc = "section2"
  /\ loc' = [section2 |-> Section2Zone(loc.premium)] @@ loc
  /\ pc' = "bandarmology"
  /\ UNCHANGED <<mode, inp, score, factors, convictionFactors, out>>

\* line 293 and lines 376-397 of generateBandarmologyAnalysis
CaBandarmology ==
  /\ mode = "analysis" /\ pc = "bandarmology"
  /\ LET cost == avgCost(inp.brokerSummary, OrElse(inp.close, 0))
         p    == PremiumOverCost(OrElse(inp.close, 0), cost)
     IN  out' = [section2 |-> loc.section2,
                 priceVsCost |-> [status |-> PriceVsCostStatus(p), premium |-> p]]
  /\ pc' = "done"
  /\ UNCHANGED <<mode, inp, loc, score, factors, convictionFactors>>

NextCa == CaCost \/ CaSection2 \/ CaBandarmology

InitCa ==
  /\ mode = "analysis" /\ pc = "entry"
  /\ inp \in { [close |-> c, brokerSummary |-> b] : c \in ClosePrices, b \in BrokerSummaries }
  /\ loc = NoValue /\ score = 0 /\ factors = <<>> /\ convictionFactors = <<>>
  /\ out = NoValue

\* the score of scoring.js and the comprehensive analysis on the same inputs
SpecZones == (InitV1 \/ InitCa) /\ [][NextV1 \/ NextCa]_vars

-----------------------------------------------------------------------------
(* Two calls of a scoring function whose inputs differ in the foreign net   *)
(* value only: inp.lo in the first call, inp.hi in the second               *)

\* indicator bundles of scoring.js that reach both ends of the clamp
PairBundles ==
  { [brokerSummary |-> b, foreignFlow |-> [netValue |-> 0],
     volumeAnalysis |-> [totalVolume |-> 5, averageVolume |-> 2, volumeSpike |-> vs,
                         volumeDryUp |-> Absent, bidAskImbalance |-> bai],
     foreignStreak |-> fs, brokerConcentration |-> Absent,
     priceAction |-> PriceAction(Quiet, Quiet, Quiet, Quiet, Quiet)] :
       b \in BrokerSummaries,
       vs \in {Absent, Det(TRUE, "STEALTH_ACCUMULATION")},
       bai \in {Absent, Det(TRUE, "DISTRIBUTION")},
       fs \in {Absent, Det(TRUE, "STRONG_BULLISH"), Det(TRUE, "STRONG_BEARISH")} }

\* stock data of scoring-v3.js apart from foreignData.netValue
PairStocks ==
  { [price |-> p, volume |-> v, historical |-> h, ownership |-> Ownership(1000, 50, TRUE),
     brokerData |-> b, foreignData |-> [netValue |-> 0, streak |-> k],
     changePct |-> Num(1)] :
       p \in Prices3, v \in {100, 350},
       h \in {Block(Tight) \o Block(TightUp), Block(Weak) \o Block(Weak)},
       b \in BrokerDatas,
       k \in {NoStreak, [buyDays |-> 5, sellDays |-> 0], [buyDays |-> 0, sellDays |-> 5]} }

\* indicators of backtest.js apart from foreignNet
PairIndicators ==
  { [foreignNet |-> 0, bandarNet |-> b, largeLotRatio |-> l, sidChange |-> d,
     queueScore |-> q] :
       b \in {-2000001, 0, 2000001}, l \in {0, 41}, d \in {-101, 101}, q \in {29, 71} }

\* foreign net values in money units at and next to the thresholds of
\* scoring.js and scoring-v3.js
PairNetValues == {-1001, -1000, 0, 500, 501, 1000, 1001}

\* the pairs lo <= hi of a set of net values
Ordered(S) == { p \in S \X S : p[1] <= p[2] }

PairDone(lo, hi) ==
  /\ out' = [lo |-> lo, hi |-> hi]
  /\ pc' = "done"
  /\ UNCHANGED <<mode, inp, loc, score, factors, convictionFactors>>

\* scoring.js calculateBandarScore, twice
PairV1 ==
  /\ mode = "pair" /\ pc = "entry" /\ inp.fn = "scoring.js"
  /\ PairDone(
       calculateBandarScore(inp.stockData,
         [inp.indicators EXCEPT !.foreignFlow.netValue = inp.lo]),
       calculateBandarScore(inp.stockData,
         [inp.indicators EXCEPT !.foreignFlow.netValue = inp.hi]))

\* scoring-v3.js calculateBandarScore, twice
PairV3 ==
  /\ mode = "pair" /\ pc = "entry" /\ inp.fn = "scoring-v3.js"
  /\ PairDone(
       scoreV3([inp.stockData EXCEPT !.foreignData.netValue = inp.lo], inp.marketContext),
       scoreV3([inp.stockData EXCEPT !.foreignData.netValue = inp.hi], inp.marketContext))

\* backtest.js calculateHistoricalScore, twice
PairBt ==
  /\ mode = "pair" /\ pc = "entry" /\ inp.fn = "backtest.js"
  /\ PairDone(
       [score |-> calculateHistoricalScore(inp.price,
                    [inp.indicators EXCEPT !.foreignNet = inp.lo])],
       [score |-> calculateHistoricalScore(inp.price,
                    [inp.indicators EXCEPT !.foreignNet = inp.hi])])

NextPair == PairV1 \/ PairV3 \/ PairBt

InitPair ==
  /\ mode = "pair" /\ pc = "entry"
  /\ \/ inp \in { [fn |-> "scoring.js", stockData |-> [close |-> c], indicators |-> i,
                   lo |-> p[1], hi |-> p[2]] :
                    c \in {1050, 10000}, i \in PairBundles, p \in Ordered(PairNetValues) }
     \/ inp \in { [fn |-> "scoring-v3.js", stockData |-> d,
                   marketContext |-> [ihsgChange |-> Num(-6)], lo |-> p[1], hi |-> p[2]] :
                    d \in PairStocks, p \in Ordered(PairNetValues) }
     \/ inp \in { [fn |-> "backtest.js", price |-> [changePct |-> c], indicators |-> i,
                   lo |-> p[1], hi |-> p[2]] :
                    c \in {-6, 6}, i \in PairIndicators, p \in Ordered(BtForeignNets) }
  /\ loc = NoValue /\ score = 0 /\ factors = <<>> /\ convictionFactors = <<>>
  /\ out = NoValue

SpecPair == InitPair /\ [][NextPair]_vars

-----------------------------------------------------------------------------
(* Two calls of a scoring function on the same input objects: inp holds the *)
(* caller's objects, loc.given their value before the first call            *)

\* a sort of the caller's array itself: brokerSummary.sort(...)
ArrayAfterSort_InPlace(array, sorted) == sorted

\* the caller's array after [...array].sort(...): the spread copy is sorted
ArrayAfterSort(array, sorted) == array

\* scoring.js line 35 as the caller sees it
AfterV1(args) ==
  [args EXCEPT !.indicators.brokerSummary = ArrayAfterSort(@, sortedByNet(@))]

\* scoring-v3.js line 143 as the caller sees it
AfterV3(args) ==
  [args EXCEPT !.stockData.brokerData = ArrayAfterSort(@, sortedByBuy(@))]

\* the function inp.fn applied to the objects in args
Call(args) ==
  IF args.fn = "scoring.js" THEN calculateBandarScore(args.stockData, args.indicators)
  ELSE scoreV3(args.stockData, args.marketContext)

After(args) == IF args.fn = "scoring.js" THEN AfterV1(args) ELSE AfterV3(args)

TwiceFirst ==
  /\ mode = "twice" /\ pc = "entry"
  /\ loc' = [given |-> inp, first |-> Call(inp)]
  /\ inp' = After(inp)
  /\ pc' = "second"
  /\ UNCHANGED <<mode, score, factors, convictionFactors, out>>

TwiceSecond ==
  /\ mode = "twice" /\ pc = "second"
  /\ out' = [first |-> loc.first, second |-> Call(inp)]
  /\ inp' = After(inp)
  /\ pc' = "done"
  /\ UNCHANGED <<mode, loc, score, factors, convictionFactors>>

NextTwice == TwiceFirst \/ TwiceSecond

InitTwice ==
  /\ mode = "twice" /\ pc = "entry"
  /\ \/ inp \in { [fn |-> "scoring.js", stockData |-> [close |-> c],
                   indicators |-> [i EXCEPT !.foreignFlow.netValue = v]] :
                    c \in ClosePrices, i \in PairBundles, v \in {-1001, 0, 1001} }
     \/ inp \in { [fn |-> "scoring-v3.js",
                   stockData |-> [d EXCEPT !.foreignData.netValue = v],
                   marketContext |-> [ihsgChange |-> Num(-6)]] :
                    d \in PairStocks, v \in {-1001, 0, 1001} }
  /\ loc = NoValue /\ score = 0 /\ factors = <<>> /\ convictionFactors = <<>>
  /\ out = NoValue

SpecTwice == InitTwice /\ [][NextTwice]_vars

-----------------------------------------------------------------------------
(* The volume-spike and the bid-ask detector of generateBandarIndicators on *)
(* their own: ratios in hundredths, volumes in lots, changePct in tenths    *)

\* spike ratios 0.00 .. RatioSteps / 100
RatioSteps == 400

\* volumes whose quotients by 100 lie at and next to 0.85, 1, 1.15, 1.3, 1.5
DetVolumes == {0, 84, 85, 86, 87, 100, 115, 116, 117, 118, 130, 131, 150, 151}

\* price changes at and next to -2, -0.5 and 2 percent
DetChanges == {-21, -20, -6, -5, 0, 20, 21}

\* lines 383-412 on a spike ratio
DetSpike ==
  /\ mode = "detector" /\ pc = "entry" /\ inp.detector = "volumeSpike"
  /\ out' = VolumeSpikeOf(inp.spikeRatio)
  /\ pc' = "done"
  /\ UNCHANGED <<mode, inp, loc, score, factors, convictionFactors>>

\* lines 460-487 on the totals, and on the totals exchanged
DetBidAsk ==
  /\ mode = "detector" /\ pc = "entry" /\ inp.detector = "bidAskImbalance"
  /\ out' = [result  |-> BidAskImbalanceOf(inp.totalBuyVolume, inp.totalSellVolume,
                                           inp.changePct),
             swapped |-> BidAskImbalanceOf(inp.totalSellVolume, inp.totalBuyVolume,
                                           inp.changePct)]
  /\ pc' = "done"
  /\ UNCHANGED <<mode, inp, loc, score, factors, convictionFactors>>

\* the longest volume history drawn for the dry-up detector
MaxVolumeDays == 6

\* daily volumes: a quiet day, a day at half and a day at full volume
DetDayVolumes == {10, 50, 100}

\* histories as getHistoricalVolumeData returns them (most recent day first)
\* of five days and more; the two oldest days are full days
DetHistories ==
  { h \in UNION { [1..n -> DetDayVolumes] : n \in 5..MaxVolumeDays } :
      h[Len(h)] = 100 /\ h[Len(h) - 1] = 100 }

\* spike ratios at and next to 1.3 and 1.5
DetRatios == { Frac(n, 10) : n \in {0, 10, 12, 13, 14, 15, 20, 40} }

\* lines 415-454 on a volume history and a spike ratio
DetDryUp ==
  /\ mode = "detector" /\ pc = "entry" /\ inp.detector = "volumeDryUp"
  /\ loc' = [recentVolumes |-> RecentVolumes(inp.volumes)]
  /\ out' = VolumeDryUpOf(inp.volumes, inp.spikeRatio)
  /\ pc' = "done"
  /\ UNCHANGED <<mode, inp, score, factors, convictionFactors>>

NextDet == DetSpike \/ DetBidAsk \/ DetDryUp

InitDet ==
  /\ mode = "detector" /\ pc = "entry"
  /\ \/ inp \in { [detector |-> "volumeSpike", spikeRatio |-> Frac(n, 100)] :
                    n \in 0..RatioSteps }
     \/ inp \in { [detector |-> "bidAskImbalance", totalBuyVolume |-> b,
                   totalSellVolume |-> a, changePct |-> c] :
                    b \in DetVolumes, a \in DetVolumes, c \in DetChanges }
     \/ inp \in { [detector |-> "volumeDryUp", volumes |-> h, spikeRatio |-> r] :
                    h \in DetHistories, r \in DetRatios }
  /\ loc = NoValue /\ score = 0 /\ factors = <<>> /\ convictionFactors = <<>>
  /\ out = NoValue

SpecDetectors == InitDet /\ [][NextDet]_vars

-----------------------------------------------------------------------------
(* server.js : the response cache of getCompanies and getBrokers; the clock *)
(* counts minutes. loc holds the cache object, the clock, the number of     *)
(* upstream requests issued, and for the properties the clock reading of    *)
(* the last successful fetch of each list                                   *)

\* const CACHE_DURATION = 5 * 60 * 1000, in minutes
CACHE_DURATION == 5

\* the clock stops at MaxClock minutes
MaxClock == 7

\* at most MaxRequests upstream requests are issued
MaxRequests == 3

\* what the upstream API answers: one of two lists, or an error
ApiResults == {"listA", "listB", "throws"}

\* lines 74 and 90: cache.x && cache.lastFetch && (Date.now() - cache.lastFetch < CACHE_DURATION)
CacheHit(cache, entry, now) ==
  /\ cache[entry] # "null"
  /\ cache.lastFetch # "null"
  /\ now - cache.lastFetch < CACHE_DURATION

\* lines 72-80 and 88-96: one call of getCompanies ("companies") or
\* getBrokers ("brokers")
CacheGet(entry) ==
  /\ IF CacheHit(loc.cache, entry, loc.now)
     THEN /\ out' = [call |-> entry, result |-> loc.cache[entry], from |-> "cache"]
          /\ loc' = loc
     ELSE /\ loc.requests < MaxRequests
          /\ \E data \in ApiResults :
               IF data = "throws"
               THEN /\ out' = [call |-> entry, result |-> "throws", from |-> "api"]
                    /\ loc' = [loc EXCEPT !.requests = @ + 1]
               ELSE /\ out' = [call |-> entry, result |-> data, from |-> "api"]
                    /\ loc' = [loc EXCEPT !.requests = @ + 1,
                                          !.cache[entry] = data,
                                          !.fetchedAt[entry] = loc.now]
  /\ UNCHANGED <<mode, pc, inp, score, factors, convictionFactors>>

getCompanies ==
  /\ mode = "cache"
  /\ CacheGet("companies")

getBrokers ==
  /\ mode = "cache"
  /\ CacheGet("brokers")

\* a minute passes
CacheTick ==
  /\ mode = "cache" /\ loc.now < MaxClock
  /\ loc' = [loc EXCEPT !.now = @ + 1]
  /\ UNCHANGED <<mode, pc, inp, score, factors, convictionFactors, out>>

NextCache == getCompanies \/ getBrokers \/ CacheTick

\* lines 49-55: the cache starts empty
InitCache ==
  /\ mode = "cache" /\ pc = "serving"
  /\ inp = NoValue
  /\ loc = [cache |-> [prices |-> "null", companies |-> "null", brokers |-> "null",
                       lastFetch |-> "null"],
            now |-> 0, requests |-> 0,
            fetchedAt |-> [companies |-> -1, brokers |-> -1]]
  /\ score = 0 /\ factors = <<>> /\ convictionFactors = <<>>
  /\ out = NoValue

SpecCache == InitCache /\ [][NextCache]_vars

-----------------------------------------------------------------------------
(* server.js : the pg connection pool and the tasks that use it. A task is  *)
(* one generateBandarIndicators call of the screener ("derive") or one      *)
(* /api/db-health request ("health"). loc.tasks[t] holds the stage of task  *)
(* t, its position in the stage and the number of clients it holds;         *)
(* loc.queue the pending connect requests in order, loc.free the clients    *)
(* not checked out                                                          *)

\* new Pool({ max: 20 }), scaled down
PoolMax == 2

\* the screener starts more tasks than the pool has clients
PoolTasks == 1..(PoolMax + 1)

\* the helpers of generateBandarIndicators in call order (lines 270, 370,
\* 529, 585); after the last one the function returns
AfterStage(stage) ==
  CASE stage = "tx"  -> "volume"
    [] stage = "volume" -> "foreignFlow"
    [] stage = "foreignFlow" -> "concentration"
    [] OTHER -> "done"

\* getHistoricalVolumeData, getForeignFlowHistory and
\* getBrokerConcentrationHistory call getLatestDataDate inside their try
NestedStages == {"volume", "foreignFlow", "concentration"}

At(stage, at, held) == [stage |-> stage, at |-> at, held |-> held]
Finished(held) == At("done", "done", held)
StartOf(stage) == IF stage = "done" THEN Finished(0) ELSE At(stage, "start", 0)

\* a release that keeps the client checked out
PoolRelease_Kept(l) == l

\* client.release(): the client goes to the first pending request, or back
\* to the pool
PoolRelease(l) ==
  IF l.queue # <<>>
  THEN LET h == Head(l.queue)
       IN  [l EXCEPT !.queue = Tail(@),
                     !.tasks[h].held = @ + 1,
                     !.tasks[h].at = IF @ = "wait" THEN "held" ELSE "inner"]
  ELSE [l EXCEPT !.free = @ + 1]

\* await pool.connect() of task t: a free client at once, or a place in the
\* queue
PoolConnect(l, t, waiting, granted) ==
  IF l.free > 0
  THEN [l EXCEPT !.free = @ - 1, !.tasks[t].held = @ + 1, !.tasks[t].at = granted]
  ELSE [l EXCEPT !.queue = Append(@, t), !.tasks[t].at = waiting]

PoolStep(l) ==
  /\ loc' = l
  /\ UNCHANGED <<mode, pc, inp, score, factors, convictionFactors, out>>

\* lines 100, 147, 197, 230 and 1316: the connect of a helper or of db-health
TaskConnect(t) ==
  /\ mode = "pool" /\ loc.tasks[t].at = "start"
  /\ PoolStep(PoolConnect(loc, t, "wait", "held"))

\* lines 101-142 of getBrokerTransactionsFromDB: the queries, then finally
\* release; without rows (or on a throw) generateBandarIndicators returns
\* the basic bundle
TxQuery(t) ==
  /\ mode = "pool" /\ loc.tasks[t] = At("tx", "held", 1)
  /\ \E rows \in BOOLEAN :
       PoolStep(PoolRelease(
         [loc EXCEPT !.tasks[t] = IF rows THEN StartOf("volume") ELSE Finished(0)]))

\* lines 150, 200, 233 with line 178: getLatestDataDate connects while the
\* caller holds its client
InnerConnect(t) ==
  /\ mode = "pool" /\ loc.tasks[t].stage \in NestedStages /\ loc.tasks[t].at = "held"
  /\ PoolStep(PoolConnect(loc, t, "innerWait", "inner"))

\* lines 179-192: the query of getLatestDataDate (rows or a caught throw),
\* then finally release
InnerQuery(t) ==
  /\ mode = "pool" /\ loc.tasks[t].at = "inner"
  /\ PoolStep(PoolRelease(
       [loc EXCEPT !.tasks[t].held = @ - 1, !.tasks[t].at = "query"]))

\* lines 151-173 (203-225, 236-259): the helper's query (rows, no date or a
\* caught throw), then finally release; the caller goes on to the next helper
OuterQuery(t) ==
  /\ mode = "pool" /\ loc.tasks[t].at = "query"
  /\ PoolStep(PoolRelease(
       [loc EXCEPT !.tasks[t] = StartOf(AfterStage(loc.tasks[t].stage))]))

\* lines 1317-1318 and 1326: the query of /api/db-health; client.release()
\* follows the query in the try block and is skipped when the query throws
HealthQuery(t) ==
  /\ mode = "pool" /\ loc.tasks[t] = At("health", "held", 1)
  /\ \/ PoolStep(PoolRelease([loc EXCEPT !.tasks[t] = Finished(0)]))
     \/ PoolStep([loc EXCEPT !.tasks[t] = Finished(1)])

\* the queue without the request of task t
RECURSIVE Without(_, _)
Without(q, t) ==
  IF q = <<>> THEN <<>>
  ELSE IF Head(q) = t THEN Tail(q) ELSE <<Head(q)>> \o Without(Tail(q), t)

\* connectionTimeoutMillis: 2000: a pending connect rejects. The outer
\* connect of getBrokerTransactionsFromDB and getHistoricalVolumeData ends
\* the derivation (catch of line 711), that of the two later helpers is
\* caught at lines 579 and 638; a rejected getLatestDataDate is caught by
\* the helper, which releases its client
ConnectTimeout(t) ==
  /\ mode = "pool" /\ loc.tasks[t].at \in {"wait", "innerWait"}
  /\ LET l == [loc EXCEPT !.queue = Without(@, t)]
         stage == loc.tasks[t].stage
     IN  IF loc.tasks[t].at = "innerWait"
         THEN PoolStep(PoolRelease([l EXCEPT !.tasks[t] = StartOf(AfterStage(stage))]))
         ELSE IF stage = "foreignFlow"
         THEN PoolStep([l EXCEPT !.tasks[t] = StartOf("concentration")])
         ELSE PoolStep([l EXCEPT !.tasks[t] = Finished(0)])

NextPool ==
  \E t \in PoolTasks :
    \/ TaskConnect(t) \/ TxQuery(t) \/ InnerConnect(t) \/ InnerQuery(t)
    \/ OuterQuery(t) \/ HealthQuery(t) \/ ConnectTimeout(t)

\* lines 1005-1034: prices.map(async ...) starts every derivation at once;
\* db-health requests arrive beside them
InitPool ==
  /\ mode = "pool" /\ pc = "running"
  /\ inp \in [PoolTasks -> {"derive", "health"}]
  /\ loc = [tasks |-> [t \in PoolTasks |->
                         IF inp[t] = "derive" THEN StartOf("tx") ELSE StartOf("health")],
            queue |-> <<>>, free |-> PoolMax]
  /\ score = 0 /\ factors = <<>> /\ convictionFactors = <<>>
  /\ out = NoValue

SpecPool == InitPool /\ [][NextPool]_vars

-----------------------------------------------------------------------------
(* backtest.js : runBacktest, the simulated trading days                   *)
(* Money is in IDR. Dates are whole days counted from the day of the run,  *)
(* so today is 0 and yesterday is -1.                                      *)

\* config.weeks ranges over 1..MaxWeeks
MaxWeeks == 2

\* config.initialFund
InitialFunds == {100000, 1000000}

\* currentPrices: the symbols of the price list, in list order; the list of
\* two stocks is simulated for one week
BtPriceLists == {<<"AAAA">>, <<"AAAA", "BBBB">>}

RunInputs ==
  { [initialFund |-> f, weeks |-> w, currentPrices |-> c] :
      f \in InitialFunds, w \in 1..MaxWeeks, c \in BtPriceLists }

\* lines 15-16, 24: the close of history[day] is the end of a fresh random walk
BtCloses == {1000, 1160}

\* line 15: one step of the walk moves the close by about one percent at most
BtDayChanges == {-1, 0, 1}

\* lines 36-39: the value of pseudoRandom(), in hundredths; Math.sin(seed)
\* is drawn from this set
BtRandoms == {30, 40, 90}

\* lines 11-13, 20: the date of history[k] in a history of `days` days
HistoryDate(days, k) == 0 - (days - k)

\* lines 105-106: currentDate of the simulated day
CurrentDate(tradingDays, day) == 0 - (tradingDays - day)

\* lines 34-51: every field is derived from the one value r of pseudoRandom()
generateHistoricalIndicators(r) ==
  LET foreignBias == IF r > 40 THEN 1 ELSE -1
      bandarBias == IF r > 35 THEN 1 ELSE -1
  IN  [foreignNet |-> foreignBias * (r * 10000000),
       bandarNet |-> bandarBias * (r * 50000),
       largeLotRatio |-> r \div 2,
       sidChange |-> (r - 50) * 5,
       queueScore |-> r]

\* lines 109-129: one scored stock of the day
ScoredStock(symbol, tradingDays, day, close, changePct, r) ==
  LET price == [symbol |-> symbol, date |-> HistoryDate(tradingDays, day),
                close |-> close, changePct |-> IF day = 0 THEN 0 ELSE changePct]
      s == calculateHistoricalScore(price, generateHistoricalIndicators(r))
  IN  [key |-> s, symbol |-> symbol, date |-> price.date, close |-> close,
       score |-> s, signal |-> SignalBt(s)]

\* line 143: Math.floor(Math.min(maxInvestment, cash * 0.15) / close / 100) * 100
SharesToBuy_TwentyPercent(cash, close) ==
  JsFloor(Frac(cash * 20, 100 * close * 100)) * 100

SharesToBuy(cash, close) ==
  JsFloor(Frac(Min(cash * 20, cash * 15), 100 * close * 100)) * 100

\* line 147: cost * 0.0015
BuyFee(cost) == (cost * 15) \div 10000

\* line 199: value * 0.0025
SellFee(value) == (value * 25) \div 10000

\* portfolio.positions[symbol], or NoValue
RECURSIVE PositionOf(_, _)
PositionOf(positions, symbol) ==
  IF positions = <<>> THEN NoValue
  ELSE IF Head(positions).symbol = symbol THEN Head(positions)
  ELSE PositionOf(Tail(positions), symbol)

\* lines 153-157: the position after more shares were bought
AddShares(position, shares, cost) ==
  LET totalShares == position.shares + shares
  IN  [position EXCEPT !.avgPrice = Frac(position.costBasis + cost, totalShares),
                       !.shares = totalShares,
                       !.costBasis = position.costBasis + cost]

\* lines 153-166: portfolio.positions after a purchase
RECURSIVE PositionsAfterBuy(_, _, _, _, _)
PositionsAfterBuy(positions, stock, shares, cost, currentDate) ==
  IF positions = <<>>
  THEN << [symbol |-> stock.symbol, shares |-> shares, avgPrice |-> FInt(stock.close),
           costBasis |-> cost, entryDate |-> currentDate, entryScore |-> stock.score] >>
  ELSE IF Head(positions).symbol = stock.symbol
       THEN <<AddShares(Head(positions), shares, cost)>> \o Tail(positions)
       ELSE <<Head(positions)>> \o
            PositionsAfterBuy(Tail(positions), stock, shares, cost, currentDate)

\* line 217: delete portfolio.positions[symbol]
RECURSIVE DeletePosition(_, _)
DeletePosition(positions, symbol) ==
  IF positions = <<>> THEN <<>>
  ELSE IF Head(positions).symbol = symbol THEN Tail(positions)
  ELSE <<Head(positions)>> \o DeletePosition(Tail(positions), symbol)

\* line 185: scoredStocks.find(s => s.symbol === symbol)
RECURSIVE FindStock(_, _)
FindStock(stocks, symbol) ==
  IF stocks = <<>> THEN NoValue
  ELSE IF Head(stocks).symbol = symbol THEN Head(stocks)
  ELSE FindStock(Tail(stocks), symbol)

\* line 189
UnrealizedPnL(close, position) ==
  JsTimes(JsDiv(Frac(close * position.avgPrice.d - position.avgPrice.n,
                     position.avgPrice.d), position.avgPrice), 100)

\* line 190: both dates are date strings, a whole number of days apart
DaysHeld(day, entryDate, dayPricesDate) == day - (entryDate - dayPricesDate)

\* lines 193-194: unrealizedPnL >= 15 || unrealizedPnL <= -7
ProfitOrLossExit(pnl) == ~FracLT(pnl, 15, 1) \/ ~FracGT(pnl, -7, 1)

\* lines 192-195
ShouldSell(stock, position, day, dayPricesDate) ==
  \/ stock.signal = "SELL"
  \/ ProfitOrLossExit(UnrealizedPnL(stock.close, position))
  \/ DaysHeld(day, position.entryDate, dayPricesDate) >= 10

RunStep(next, l) ==
  /\ pc' = next /\ loc' = l
  /\ UNCHANGED <<mode, inp, score, factors, convictionFactors, out>>

\* lines 104-135: the prices and scores of one day
RunDay ==
  /\ mode = "run" /\ pc = "day" /\ loc.day < loc.tradingDays
  /\ \E closes \in [1..Len(inp.currentPrices) -> BtCloses],
        changes \in [1..Len(inp.currentPrices) -> BtDayChanges],
        rs \in [1..Len(inp.currentPrices) -> BtRandoms] :
       LET scoredStocks ==
             [idx \in 1..Len(inp.currentPrices) |->
                ScoredStock(inp.currentPrices[idx], loc.tradingDays, loc.day,
                            closes[idx], changes[idx], rs[idx])]
       IN  RunStep("buy", [loc EXCEPT !.dayPricesDate = scoredStocks[1].date,
                                      !.scoredStocks = SortDescKeyed(scoredStocks),
                                      !.i = 1])

\* lines 139-181: one pass of the buy loop over topStocks
RunBuy ==
  /\ mode = "run" /\ pc = "buy"
  /\ loc.i <= Len(Take(loc.scoredStocks, 5))
  /\ LET stock == Take(loc.scoredStocks, 5)[loc.i]
         shares == SharesToBuy(loc.cash, stock.close)
         cost == shares * stock.close
         fee == BuyFee(cost)
         totalCost == cost + fee
     IN  IF /\ stock.signal = "BUY" /\ loc.cash > stock.close * 100
            /\ shares >= 100 /\ loc.cash >= totalCost
         THEN RunStep("buy",
                [loc EXCEPT !.cash = loc.cash - totalCost,
                            !.positions = PositionsAfterBuy(loc.positions, stock, shares, cost,
                                            CurrentDate(loc.tradingDays, loc.day)),
                            !.trades = loc.trades + 1,
                            !.lastTrade = [action |-> "BUY", symbol |-> stock.symbol,
                                           shares |-> shares, price |-> stock.close,
                                           value |-> cost, fee |-> fee],
                            !.i = loc.i + 1])
         ELSE RunStep("buy", [loc EXCEPT !.i = loc.i + 1])

\* line 184: Object.entries(portfolio.positions) is taken once
RunBuyEnd ==
  /\ mode = "run" /\ pc = "buy"
  /\ loc.i > Len(Take(loc.scoredStocks, 5))
  /\ RunStep("sell", [loc EXCEPT !.entries = loc.positions, !.i = 1])

\* lines 184-220: one pass of the sell loop
RunSell ==
  /\ mode = "run" /\ pc = "sell"
  /\ loc.i <= Len(loc.entries)
  /\ LET position == loc.entries[loc.i]
         stock == FindStock(loc.scoredStocks, position.symbol)
         value == position.shares * stock.close
         fee == SellFee(value)
     IN  IF stock # NoValue /\ ShouldSell(stock, position, loc.day, loc.dayPricesDate)
         THEN RunStep("sell",
                [loc EXCEPT !.cash = loc.cash + (value - fee),
                            !.positions = DeletePosition(loc.positions, position.symbol),
                            !.trades = loc.trades + 1,
                            !.lastTrade = [action |-> "SELL", symbol |-> position.symbol,
                                           shares |-> position.shares, price |-> stock.close,
                                           value |-> value, fee |-> fee],
                            !.i = loc.i + 1])
         ELSE RunStep("sell", [loc EXCEPT !.i = loc.i + 1])

\* lines 222-237: the daily value is pushed and the next day begins; the
\* values that are local to one pass of the day loop go out of scope
RunDailyValue ==
  /\ mode = "run" /\ pc = "sell"
  /\ loc.i > Len(loc.entries)
  /\ RunStep("day", [loc EXCEPT !.dailyValues = loc.dailyValues + 1,
                                !.day = loc.day + 1,
                                !.scoredStocks = <<>>, !.dayPricesDate = 0,
                                !.entries = <<>>, !.i = 1])

\* lines 240-296: the loop is over and the results are returned
RunReturn ==
  /\ mode = "run" /\ pc = "day" /\ loc.day >= loc.tradingDays
  /\ pc' = "done"
  /\ out' = [totalTrades |-> loc.trades, dailyValues |-> loc.dailyValues,
             cash |-> loc.cash]
  /\ UNCHANGED <<mode, inp, loc, score, factors, convictionFactors>>

NextRun == RunDay \/ RunBuy \/ RunBuyEnd \/ RunSell \/ RunDailyValue \/ RunReturn

\* lines 89-100: trades and dailyValues are kept as their lengths, with the
\* trade pushed last
InitRun ==
  /\ mode = "run" /\ pc = "day"
  /\ inp \in { c \in RunInputs : Len(c.currentPrices) = 1 \/ c.weeks = 1 }
  /\ loc = [tradingDays |-> inp.weeks * 5, day |-> 0, cash |-> inp.initialFund,
            positions |-> <<>>, trades |-> 0, lastTrade |-> NoValue,
            dailyValues |-> 0, scoredStocks |-> <<>>, dayPricesDate |-> 0,
            entries |-> <<>>, i |-> 1]
  /\ score = 0 /\ factors = <<>> /\ convictionFactors = <<>>
  /\ out = NoValue

SpecRun == InitRun /\ [][NextRun]_vars

-----------------------------------------------------------------------------
(* Properties of generateBandarIndicators *)

\* the function has returned to its caller
GenReturned == mode = "gen" /\ pc \in {"done", "scored"}

\* no transaction rows for the symbol
NoRows == Field(loc, "transactions", <<>>) = <<>>

\* the basic bundle: all counts zero, empty broker lists, volume spike NORMAL
IsBasic(bundle) ==
  /\ bundle.foreignFlow = NoForeignFlow
  /\ bundle.totals = NoTotals
  /\ bundle.brokerSummary = <<>> /\ bundle.bandarBrokers = <<>>
  /\ bundle.largeLotTransactions = NoLots /\ bundle.transaksiNego = NoLots
  /\ bundle.sidData.count = 0 /\ bundle.runningTrades = 0
  /\ bundle.volumeAnalysis.volumeSpike = SpikeNormal

\* C6: generateBandarIndicators never throws; with no transaction rows, or
\* when a step of the derivation raises an error, it returns the basic bundle,
\* and calculateBandarScore of scoring.js gives that bundle a score within
\* 0..100 with signal HOLD
C6_DegradesToHold ==
  mode = "gen" =>
    /\ pc # "thrown"
    /\ GenReturned /\ (NoRows \/ loc.error # "none") => IsBasic(out)
    /\ pc = "scored" /\ (NoRows \/ loc.error # "none") =>
         /\ loc.scoreData.signal = "HOLD"
         /\ loc.scoreData.score \in 0..100

C6_Witness ==
  /\ mode = "gen" /\ pc = "scored"
  /\ loc.error = "connection" /\ ~NoRows
  /\ IsBasic(out) /\ loc.scoreData.signal = "HOLD"

\* the sum of parseInt(column) || 0 over rows
RECURSIVE SumColumn(_, _)
SumColumn(rows, column) ==
  IF rows = <<>> THEN 0
  ELSE ParseIntOr0(Head(rows)[column]) + SumColumn(Tail(rows), column)

ForeignRows(rows) == SelectSeq(rows, LAMBDA tx : tx.code \in FOREIGN_BROKERS)

\* C7 as stated: for a non-empty list of rows with every history query
\* succeeding, the returned bundle is not the basic one, its foreignFlow holds
\* the sums over the rows of FOREIGN_BROKERS with net = buy - sell, and its
\* totals hold the sums over all rows
C7_SumsOverRows ==
  GenReturned /\ ~NoRows /\ loc.log = <<>> /\ loc.error # "connection" =>
    LET rows == loc.transactions
        foreign == ForeignRows(rows)
    IN  /\ ~IsBasic(out)
        /\ out.foreignFlow.buy = SumColumn(foreign, "buy_volume")
        /\ out.foreignFlow.sell = SumColumn(foreign, "sell_volume")
        /\ out.foreignFlow.net = out.foreignFlow.buy - out.foreignFlow.sell
        /\ out.foreignFlow.buyValue = SumColumn(foreign, "buy_value")
        /\ out.foreignFlow.sellValue = SumColumn(foreign, "sell_value")
        /\ out.foreignFlow.netValue = out.foreignFlow.buyValue - out.foreignFlow.sellValue
        /\ out.totals.buyVolume = SumColumn(rows, "buy_volume")
        /\ out.totals.sellVolume = SumColumn(rows, "sell_volume")
        /\ out.totals.buyValue = SumColumn(rows, "buy_value")
        /\ out.totals.sellValue = SumColumn(rows, "sell_value")

\* the detector has run on a history
StreakDetected == mode = "gen" /\ pc = "concentration" /\ "foreignFlowHistory" \in DOMAIN loc

Sign(v) == IF v > 0 THEN 1 ELSE IF v < 0 THEN -1 ELSE 0

\* the length of the maximal leading run of same-signed non-zero days
RunLength(h) ==
  CHOOSE k \in 0..Len(h) :
    /\ \A i \in 1..k : h[i] # 0 /\ Sign(h[i]) = Sign(h[1])
    /\ k < Len(h) => h[k + 1] = 0 \/ Sign(h[k + 1]) # Sign(h[1])

-----------------------------------------------------------------------------
(* Properties of the three scoring functions *)

\* the delta each factor string of scoring.js stands for
FactorDeltaV1(f) ==
  CASE f = "Foreign buying >1B" -> 15
    [] f = "Foreign selling >1B" -> -15
    [] f = "Top brokers accumulating" -> 10
    [] f = "Top brokers distributing" -> -10
    [] f = "Below broker cost" -> 5
    [] f = "Volume spike + price up" -> 5
    [] f = "Stealth accumulation: volume spike" -> 12
    [] f = "Volume breakout" -> 8
    [] f = "VDU Breakout" -> 15
    [] f = "VDU Phase" -> 8
    [] f = "Stealth accumulation: bid/ask" -> 12
    [] f = "Hidden support" -> 8
    [] f = "Distribution detected" -> -12
    [] f = "Strong foreign streak" -> 18
    [] f = "Foreign buying streak" -> 12
    [] f = "Foreign accumulation" -> 6
    [] f = "Foreign selling streak (strong)" -> -18
    [] f = "Foreign selling streak" -> -12
    [] f = "Bandar concentration" -> 15
    [] f = "Coordinated buying" -> 12
    [] f = "Broker accumulation detected" -> 6
    [] f = "Price compression" -> 5
    [] f = "Bear trap" -> 12
    [] f = "Healthy pullback" -> 8
    [] f = "Floor defense" -> 10
    [] f = "Gap up breakout" -> 15

\* the delta each factor string of scoring-v3.js stands for
FactorDeltaV3(f) ==
  CASE f = "No broker data" -> 0
    [] f = "High concentration (NET BUYING)" -> 25
    [] f = "Moderate concentration (NET BUYING)" -> 18
    [] f = "High concentration but NET SELLING" -> -15
    [] f = "Big Dog accumulation" -> 15
    [] f = "Big Dog presence" -> 5
    [] f = "Big Dog distribution" -> -15
    [] f = "Contra flow" -> 10
    [] f = "Strong accumulation" -> 12
    [] f = "Moderate accumulation" -> 6
    [] f = "Sweet spot" -> 0
    [] f = "Above broker avg (distribution risk)" -> -10
    [] f = "Volume spike" -> 15
    [] f = "Elevated volume" -> 10
    [] f = "Price compression" -> 12
    [] f = "Breakout on volume" -> 10
    [] f = "Foreign buy streak" -> 5
    [] f = "Foreign sell streak" -> -5
    [] f = "Foreign inflow (strong)" -> 12
    [] f = "Foreign inflow (moderate)" -> 8
    [] f = "Foreign outflow" -> -20
    [] f = "No quant data" -> 0
    [] f = "OBV divergence" -> 8
    [] f = "CMF positive" -> 6
    [] f = "CMF negative" -> -5
    [] f = "Reclaimed VWAP" -> 5
    [] f = "Outperforming IHSG" -> 6

FactorDelta(f) == IF mode = "v3" THEN FactorDeltaV3(f) ELSE FactorDeltaV1(f)

RECURSIVE SumDeltas(_)
SumDeltas(fs) == IF fs = <<>> THEN 0 ELSE FactorDelta(Head(fs)) + SumDeltas(Tail(fs))

\* C1: every scoring function returns a score inside its band -- scoring.js
\* in [20,80], scoring-v3.js in [0,100], calculateHistoricalScore in [0,100]
\* -- and the returned signal is the one chosen from that clamped score.
C1_ScoreInBand ==
  Returned =>
    /\ mode = "v1" => out.score \in 20..80 /\ out.signal = SignalV1(out.score)
    /\ mode = "v3" => out.score \in 0..100 /\ out.signal = SignalV3(out.score)
    /\ mode = "bt" => out.score \in 0..100 /\ out.signal = SignalBt(out.score)

\* scoring.js returned with factors that add up to more than 80
C1_Witness ==
  mode = "v1" /\ Returned /\ 50 + SumDeltas(factors) > 80 /\ out.score = 80

\* the order of the signals, weakest first
Rank(signal) ==
  CASE signal = "SELL" -> 0
    [] signal = "REDUCE" -> 1
    [] signal = "HOLD" -> 2
    [] signal = "BUY" -> 3
    [] signal = "STRONG_BUY" -> 4

\* the band a score falls in, as the three variants document them
BandSignal(m, s) ==
  CASE m = "v1" -> (IF s >= 65 THEN "BUY" ELSE IF s >= 50 THEN "HOLD" ELSE "REDUCE")
    [] m = "v3" -> (IF s >= 75 THEN "STRONG_BUY" ELSE IF s >= 60 THEN "BUY"
                    ELSE IF s >= 45 THEN "HOLD" ELSE IF s >= 30 THEN "REDUCE" ELSE "SELL")
    [] m = "bt" -> (IF s >= 70 THEN "BUY" ELSE IF s < 40 THEN "SELL" ELSE "HOLD")

\* the signal each variant's code chooses for a score
CodeSignal(m, s) ==
  CASE m = "v1" -> SignalV1(s)
    [] m = "v3" -> determineSignal(s, <<>>).signal
    [] m = "bt" -> SignalBt(s)

BandTop(m) == IF m = "v1" THEN 80 ELSE 100

\* C2: the score-to-signal mapping is total and monotone: the returned signal
\* is the one of the band its score falls in, and no higher score of the
\* clamped range maps to a weaker signal.
C2_SignalTotalMonotone ==
  Returned =>
    /\ out.signal = BandSignal(mode, out.score)
    /\ \A s2 \in out.score..BandTop(mode) :
         /\ CodeSignal(mode, s2) = BandSignal(mode, s2)
         /\ Rank(CodeSignal(mode, s2)) >= Rank(out.signal)

\* scoring.js returned exactly at the BUY cut point
C2_Witness == mode = "v1" /\ Returned /\ out.score = 65 /\ out.signal = "BUY"

\* the score local and the factors agree (before the clamp), and the returned
\* score is the clamp of that sum
C3_Sum ==
  /\ (mode \in {"v1", "v3"} /\ pc \notin {"entry", "done"}) => score = 50 + SumDeltas(factors)
  /\ (mode = "v1" /\ Returned) => out.score = Max(20, Min(80, 50 + SumDeltas(out.factors)))
  /\ (mode = "v3" /\ Returned) => out.score = Max(0, Min(100, 50 + SumDeltas(out.factors)))

\* a step between the initialisation and the clamp only appends factors; in
\* scoring.js a step that changes the score appends exactly one, with that
\* delta, in scoring-v3.js a bucket appends the factors of its deltas
C3_Step ==
  (mode \in {"v1", "v3"} /\ pc \notin {"entry", "return", "done"}) =>
    /\ Len(factors') >= Len(factors)
    /\ SubSeq(factors', 1, Len(factors)) = factors
    /\ score' - score
         = SumDeltas(SubSeq(factors', Len(factors) + 1, Len(factors')))
    /\ (mode = "v1" /\ score' # score) => Len(factors') = Len(factors) + 1
    /\ (mode = "v1" /\ score' = score) => factors' = factors

\* C3: the score starts at 50 and changes only by additive deltas, each
\* change appending its factor in the same step and in order, so that before
\* clamping score = 50 + the sum of the deltas of the listed factors.
C3_ScoreIsSumOfFactors ==
  /\ [](pc = "entry" => score = 0 /\ factors = <<>>)
  /\ []C3_Sum
  /\ [][C3_Step]_vars

\* scoring.js about to clamp a sum of three factors that lies above the band
C3_Witness ==
  mode = "v1" /\ pc = "return" /\ Len(factors) = 3 /\ score > 80

\* the factors of scoring-v3.js that raise the score
Bullish(f) == FactorDeltaV3(f) > 0

\* multi-day streak, broker concentration, confirmed breakout
Tier1 ==
  {"Foreign buy streak", "High concentration (NET BUYING)",
   "Moderate concentration (NET BUYING)", "Breakout on volume"}

OneBullishNoTier1(fs) ==
  /\ Cardinality({i \in 1..Len(fs) : Bullish(fs[i])}) = 1
  /\ \A i \in 1..Len(fs) : fs[i] \notin Tier1

\* C4: a result with exactly one bullish factor and no tier-1 signal never
\* carries STRONG_BUY (scoring.js never emits STRONG_BUY at all).
C4_NoStrongBuyOnOneFactor ==
  /\ (mode = "v3" /\ Returned /\ OneBullishNoTier1(out.factors)) => out.signal # "STRONG_BUY"
  /\ (mode = "v1" /\ Returned) => out.signal # "STRONG_BUY"

\* scoring-v3.js returned with a volume spike as its only bullish factor
C4_Witness ==
  /\ mode = "v3" /\ Returned /\ OneBullishNoTier1(out.factors)
  /\ out.score = 65 /\ out.signal = "BUY"

\* how many of the three trusted conviction factors are present
TrustedCount(cf) ==
  Cardinality({c \in {"high_concentration", "sweet_spot", "big_dog_accumulating"} :
                 Includes(cf, c)})

\* the conviction of the score's band
C5_Band(s) ==
  IF s >= 75 THEN 5 ELSE IF s >= 60 THEN 4 ELSE IF s >= 45 THEN 3
  ELSE IF s >= 30 THEN 2 ELSE 1

\* C5: conviction is an integer in 1..5: the band value of the score plus one
\* for each of high_concentration, sweet_spot and big_dog_accumulating, never
\* below the band value and never above 5.
C5_ConvictionInRange ==
  (mode = "v3" /\ Returned) =>
    /\ out.conviction \in 1..5
    /\ out.conviction >= C5_Band(out.score)
    /\ out.conviction = Min(5, C5_Band(out.score) + TrustedCount(out.convictionFactors))

\* a STRONG_BUY result with all three trusted factors: the cap binds
C5_Witness ==
  /\ mode = "v3" /\ Returned /\ out.score >= 75
  /\ TrustedCount(out.convictionFactors) = 3 /\ out.conviction = 5

-----------------------------------------------------------------------------
(* Properties of the ratios of server.js and scoring-v3.js *)

\* the indicator derivation and the v3 scoring side by side
SpecRatios == (InitGen \/ InitV3) /\ [][NextGen \/ NextV3]_vars

\* C11: the spike ratio and the bid-ask ratio of server.js and the top-3
\* concentration and the spike ratio of scoring-v3.js are finite numbers; a
\* zero denominator gives 1, 1, 0 and 1
C11_ZeroGuards ==
  /\ mode = "gen" /\ Has("spikeRatio") =>
       /\ IsFinite(loc.spikeRatio)
       /\ loc.avgVolume.n = 0 => loc.spikeRatio = FInt(1)
  /\ mode = "gen" /\ Has("bidAskRatio") =>
       /\ IsFinite(loc.bidAskRatio)
       /\ loc.totalSellVolume = 0 => loc.bidAskRatio = FInt(1)
  /\ mode = "v3" /\ Has("brokerAnalysis") => IsFinite(loc.brokerAnalysis.top3Concentration)
  /\ mode = "v3" /\ pc = "broker" =>
       \A brokerData \in BrokerDatas :
         SumBuy(brokerData) = 0 =>
           analyzeBrokerAccumulation(brokerData, inp.ownership, loc.metrics).top3Concentration
             = Zero
  /\ mode = "v3" /\ Has("volumeSpikeRatio") =>
       /\ IsFinite(loc.volumeSpikeRatio)
       /\ loc.metrics.avgVolume20.n = 0 => loc.volumeSpikeRatio = FInt(1)

C11_Witness ==
  /\ mode = "gen" /\ Has("spikeRatio") /\ Has("bidAskRatio")
  /\ loc.avgVolume.n = 0 /\ loc.totalBuyVolume > 0 /\ loc.spikeRatio = FInt(1)
  /\ loc.totalSellVolume = 0 /\ loc.bidAskRatio = FInt(1)

-----------------------------------------------------------------------------
(* Properties of the cost basis of scoring.js *)

\* C12 as stated: the premiumToCost and avgBrokerCost that calculateBandarScore
\* of scoring.js returns are finite numbers for every input
C12_CostBasisFinite ==
  mode = "v1" /\ Returned => IsFinite(out.premiumToCost) /\ IsFinite(out.avgBrokerCost)

-----------------------------------------------------------------------------
(* Properties of the cost-basis zones *)

\* premiumToCost of scoring.js for the inputs of either function
ScoringPremium == premiumToCost(inp.close, avgBrokerCost(inp.brokerSummary, inp.close))

\* the labels that C15 rules out below the cost
DangerLabels == {"OVERVALUED", "DANGER ZONE", "DANGER"}

\* C15: when premiumToCost < -5, the cost-basis step of scoring.js adds 5 and
\* pushes 'Below broker cost'; scoring.js does not label the stock OVERVALUED
\* and the comprehensive analysis labels it neither DANGER ZONE nor DANGER;
\* every function gives at most one cost-basis zone
C15_BelowCostIsNeverDanger ==
  /\ [][(V1Cost /\ JsLess(loc.premiumToCost, -5)) =>
          /\ score' = score + 5
          /\ factors' = Append(factors, "Below broker cost")]_vars
  /\ [](mode = "v1" /\ pc # "entry" =>
          /\ Len(loc.costBasisLabels) <= 1
          /\ JsLess(loc.premiumToCost, -5) =>
               \A i \in DOMAIN loc.costBasisLabels : loc.costBasisLabels[i] \notin DangerLabels)
  /\ [](mode = "v1" /\ Returned /\ JsLess(out.premiumToCost, -5) =>
          \E i \in DOMAIN out.factors : out.factors[i] = "Below broker cost")
  /\ [](mode = "analysis" /\ Returned =>
          /\ Len(out.section2) <= 1
          /\ JsLess(ScoringPremium, -5) =>
               /\ \A i \in DOMAIN out.section2 : out.section2[i] \notin DangerLabels
               /\ out.priceVsCost.status \notin DangerLabels)

\* price 1050 against a cost of 10,000: VALUE ZONE and VALUE
C15_Witness ==
  /\ mode = "analysis" /\ Returned
  /\ inp.close = 1050 /\ avgBrokerCost(inp.brokerSummary, inp.close) = FInt(10000)
  /\ JsLess(ScoringPremium, -5)
  /\ out.section2 = <<"VALUE ZONE">> /\ out.priceVsCost.status = "VALUE"

-----------------------------------------------------------------------------
(* Properties of pairs of calls *)

\* C16: with every other input fixed, a larger foreign net value never gives a
\* smaller score, in scoring.js, in scoring-v3.js and in backtest.js
C16_MonotoneInForeignNet ==
  (mode = "pair" /\ Returned /\ inp.lo <= inp.hi) => out.lo.score <= out.hi.score

\* a pair of scoring.js calls across the selling and the buying threshold
\* whose scores differ and are not cut by the clamp
C16_Witness ==
  /\ mode = "pair" /\ Returned /\ inp.fn = "scoring.js"
  /\ inp.lo = -1001 /\ inp.hi = 1001
  /\ out.lo.score = 35 /\ out.hi.score = 65

-----------------------------------------------------------------------------
(* Properties of the detectors *)

\* the spike ratio of a detector state in hundredths, when it is a whole number
SpikeDone == mode = "detector" /\ Returned /\ inp.detector = "volumeSpike"
Hundredths == (inp.spikeRatio.n * 100) \div inp.spikeRatio.d

\* C18: a ratio below 1.5 is NORMAL and not detected, a ratio from 1.5 and
\* below 3.0 is STEALTH_ACCUMULATION (MODERATE below 2.5, HIGH from 2.5), a
\* ratio from 3.0 is BREAKOUT with severity EXTREME
C18_SpikeBuckets ==
  SpikeDone =>
    /\ Hundredths < 150 =>
         ~out.detected /\ out.signal = "NORMAL" /\ out.severity = "NONE"
    /\ Hundredths >= 150 /\ Hundredths < 250 =>
         out.detected /\ out.signal = "STEALTH_ACCUMULATION" /\ out.severity = "MODERATE"
    /\ Hundredths >= 250 /\ Hundredths < 300 =>
         out.detected /\ out.signal = "STEALTH_ACCUMULATION" /\ out.severity = "HIGH"
    /\ Hundredths >= 300 =>
         out.detected /\ out.signal = "BREAKOUT" /\ out.severity = "EXTREME"

\* the ratio 1.5 itself is detected
C18_Witness ==
  SpikeDone /\ Hundredths = 150 /\ out.signal = "STEALTH_ACCUMULATION"

BidAskDone == mode = "detector" /\ Returned /\ inp.detector = "bidAskImbalance"

\* C19: the signal of the bid-ask detector is one value; an accumulation
\* signal (STEALTH_ACCUMULATION, HIDDEN_SUPPORT) needs more buying than
\* selling and DISTRIBUTION more selling than buying, so no totals give both,
\* and scoring.js takes at most one factor from the record
C19_OneImbalanceSignal ==
  BidAskDone =>
    /\ Cardinality({ g \in {"STEALTH_ACCUMULATION", "HIDDEN_SUPPORT", "DISTRIBUTION"} :
                       out.result.signal = g }) <= 1
    /\ out.result.signal \in {"STEALTH_ACCUMULATION", "HIDDEN_SUPPORT"} =>
         inp.totalBuyVolume > inp.totalSellVolume
    /\ out.result.signal = "DISTRIBUTION" => inp.totalBuyVolume < inp.totalSellVolume
    /\ Len(BidAskImbalanceDetection([score |-> 50, factors |-> <<>>], out.result).factors) <= 1

\* a falling price with heavy buying: accumulation, and distribution when the
\* totals are exchanged
C19_Witness ==
  /\ BidAskDone /\ inp.totalBuyVolume = 131 /\ inp.totalSellVolume = 100
  /\ inp.changePct = -6
  /\ out.result.signal = "STEALTH_ACCUMULATION" /\ out.swapped.signal = "DISTRIBUTION"

\* C20 as stated: the totals cross the accumulation threshold exactly when
\* the exchanged totals cross the distribution threshold
C20_ReciprocalThresholds ==
  (BidAskDone /\ inp.totalBuyVolume > 0 /\ inp.totalSellVolume > 0) =>
    (AboveAccumulationThreshold(BidAskRatio(inp.totalBuyVolume, inp.totalSellVolume))
       <=> BelowDistributionThreshold(BidAskRatio(inp.totalSellVolume, inp.totalBuyVolume)))

DryUpDone == mode = "detector" /\ Returned /\ inp.detector = "volumeDryUp"

\* the number of the three compared days below 0.7 times their average
DaysBelow(three) ==
  Cardinality({ i \in 1..3 : 10 * 3 * three[i] < 7 * (three[1] + three[2] + three[3]) })

\* C21: the dry-up is detected exactly when at least 2 of the 3 compared days
\* are below 0.7 times their average; it is VDU_BREAKOUT exactly when the
\* ratio is at least 1.3 and VDU_ACCUMULATING exactly when it is below; the
\* confidence of a detected dry-up is at most 95 and does not fall when the
\* ratio or the dry-up-day count rises
C21_DryUpConfidence ==
  DryUpDone =>
    LET active == DaysBelow(Take(loc.recentVolumes, 3)) >= 2
        surge  == 10 * inp.spikeRatio.n >= 13 * inp.spikeRatio.d
    IN  /\ out.detected <=> active
        /\ out.signal = "VDU_BREAKOUT" <=> (active /\ surge)
        /\ out.signal = "VDU_ACCUMULATING" <=> (active /\ ~surge)
        /\ out.detected =>
             /\ ~FracGT(out.confidence, 95, 1)
             /\ \A h \in DetHistories, r \in DetRatios :
                  LET other == VolumeDryUpOf(h, r)
                  IN  (/\ other.detected
                       /\ other.dryUpDays >= out.dryUpDays
                       /\ ~FracLT(r, inp.spikeRatio.n, inp.spikeRatio.d))
                        => ~FracLT(other.confidence, out.confidence.n, out.confidence.d)

\* two quiet days and a surge of 1.3: a breakout with confidence 93
C21_Witness ==
  /\ DryUpDone /\ out.signal = "VDU_BREAKOUT" /\ out.dryUpDays = 2
  /\ inp.spikeRatio = Frac(13, 10) /\ out.confidence = FInt(93)

\* C22 as stated: the five values the dry-up detector inspects are the five
\* most recent days, the first five of the history
C22_InspectsMostRecentDays ==
  DryUpDone => loc.recentVolumes = Take(inp.volumes, 5)

\* C23 as stated: a bid-ask record with detected true carries one of the
\* signals STEALTH_ACCUMULATION, HIDDEN_SUPPORT and DISTRIBUTION, never
\* NEUTRAL with severity NONE
C23_DetectedHasSignal ==
  (BidAskDone /\ out.result.detected) =>
    /\ out.result.signal \in {"STEALTH_ACCUMULATION", "HIDDEN_SUPPORT", "DISTRIBUTION"}
    /\ out.result.severity # "NONE"

-----------------------------------------------------------------------------
(* Properties of scoring-v3.js on whole calls *)

V3CallDone == mode = "twice" /\ Returned /\ inp.fn = "scoring-v3.js"

\* does the factor list carry the factor f
HasFactor(fs, f) == \E i \in DOMAIN fs : fs[i] = f

\* C24 as stated: a result of scoring-v3.js carries the 'Strong accumulation'
\* or the 'Moderate accumulation' factor only when the brokers bought more
\* than they sold
C24_AccumulationNeedsNetBuying ==
  (/\ V3CallDone
   /\ \/ HasFactor(out.first.factors, "Strong accumulation")
      \/ HasFactor(out.first.factors, "Moderate accumulation"))
    => SumBuy(inp.stockData.brokerData) > SumSell(inp.stockData.brokerData)

\* C25: every result of scoring-v3.js has obvPositive and cmfPositive false,
\* because the metrics carry obvTrend 'neutral' and cmfValue 0; at most 7 of
\* the 9 checks pass, setupScore is at most 78 and setupQuality is never
\* 'excellent'
C25_SetupNeverExcellent ==
  (mode = "v3" /\ Returned) =>
    /\ loc.metrics.obvTrend = "neutral" /\ loc.metrics.cmfValue = Zero
    /\ ~out.idealSetup.checks.obvPositive /\ ~out.idealSetup.checks.cmfPositive
    /\ Cardinality(DOMAIN out.idealSetup.checks) = 9
    /\ out.idealSetup.passedChecks <= 7
    /\ out.idealSetup.setupScore <= 78
    /\ out.idealSetup.setupQuality # "excellent"

\* the seven other checks all pass: setupScore 78, quality good
C25_Witness ==
  /\ mode = "v3" /\ Returned
  /\ out.idealSetup.passedChecks = 7 /\ out.idealSetup.setupScore = 78
  /\ out.idealSetup.setupQuality = "good"

-----------------------------------------------------------------------------
(* Properties of the response cache *)

\* the list was fetched less than CACHE_DURATION ago
Fresh(entry) ==
  /\ loc.fetchedAt[entry] >= 0
  /\ loc.now - loc.fetchedAt[entry] < CACHE_DURATION

\* C26 as stated: a call of getCompanies or getBrokers made less than
\* CACHE_DURATION after a successful one returns the cached list and issues no
\* upstream request
C26_CacheServesRepeatedReads ==
  [][\A entry \in {"companies", "brokers"} :
       (CacheGet(entry) /\ Fresh(entry)) =>
         /\ loc'.requests = loc.requests
         /\ out'.from = "cache"
         /\ out'.result = loc.cache[entry]]_vars

-----------------------------------------------------------------------------
(* Properties of the connection pool *)

\* C27 as stated: when every request has completed, no client is checked out
C27_ClientsReleased ==
  (mode = "pool" /\ \A t \in PoolTasks : loc.tasks[t].stage = "done") =>
    /\ loc.free = PoolMax
    /\ \A t \in PoolTasks : loc.tasks[t].held = 0

\* a task that waits for a client
Blocked(t) == loc.tasks[t].at \in {"wait", "innerWait"}

\* C28 as stated: in no state is every client of the pool held by a task
\* that waits for a second client
C28_NoHoldAndWait ==
  mode = "pool" =>
    ~(/\ loc.free = 0
      /\ \A t \in PoolTasks : loc.tasks[t].held > 0 => Blocked(t)
      /\ \E t \in PoolTasks : inp[t] = "derive" /\ loc.tasks[t].held > 0)

-----------------------------------------------------------------------------
(* Properties of runBacktest *)

\* the step pushes a BUY onto portfolio.trades
Bought ==
  /\ mode = "run" /\ pc = "buy"
  /\ loc'.trades = loc.trades + 1

\* the step pushes a SELL onto portfolio.trades
Sold ==
  /\ mode = "run" /\ pc = "sell"
  /\ loc'.trades = loc.trades + 1

\* cash is not negative, every position holds whole lots, and one daily value
\* exists for every day that was simulated
PortfolioSound ==
  mode = "run" =>
    /\ loc.cash >= 0
    /\ \A k \in 1..Len(loc.positions) :
         loc.positions[k].shares > 0 /\ loc.positions[k].shares % 100 = 0
    /\ loc.dailyValues = IF pc = "done" THEN inp.weeks * 5 ELSE loc.day

\* a purchase costs at most 15% of the cash held before it, a sale closes the
\* whole position, and the two lists never shrink
TradeRules ==
  /\ Bought => 100 * loc'.lastTrade.value <= 15 * loc.cash
  /\ Sold =>
       /\ loc'.lastTrade.shares = PositionOf(loc.positions, loc'.lastTrade.symbol).shares
       /\ PositionOf(loc'.positions, loc'.lastTrade.symbol) = NoValue
  /\ mode = "run" =>
       /\ loc'.trades >= loc.trades
       /\ loc'.dailyValues >= loc.dailyValues

\* C29: throughout runBacktest cash is never negative, every open position is
\* a positive multiple of 100 shares, a purchase costs (before fee) at most
\* 15% of the cash available at that moment, a sell closes and removes the
\* whole position, trades and dailyValues only grow, and there is exactly
\* one dailyValues entry per simulated day, weeks x 5 in total.
C29_PortfolioBookkeeping == [] PortfolioSound /\ [][TradeRules]_vars

\* a week of two stocks has ended after a sale, with a position of at least
\* two lots still open
C29_Witness ==
  /\ mode = "run" /\ pc = "done"
  /\ loc.dailyValues = 5 /\ loc.trades >= 3
  /\ loc.lastTrade # NoValue /\ loc.lastTrade.action = "SELL"
  /\ loc.cash < inp.initialFund
  /\ \E k \in 1..Len(loc.positions) : loc.positions[k].shares >= 200

\* the simulated day on which the position was opened
EntryDay(tradingDays, position) ==
  CHOOSE d \in 0..tradingDays : CurrentDate(tradingDays, d) = position.entryDate

\* C30: the max-hold rule closes a position only after at least 10 simulated
\* trading days: a position opened on day d that meets none of the other
\* exit rules (SELL signal, gain >= 15%, loss <= -7%) is still open on every
\* day before d + 10, and is not sold on the day it was bought.
C30_MaxHoldAfterTenDays ==
  [][Sold =>
       LET position == loc.entries[loc.i]
           stock == FindStock(loc.scoredStocks, position.symbol)
       IN  (/\ stock.signal # "SELL"
            /\ ~ProfitOrLossExit(UnrealizedPnL(stock.close, position)))
           => loc.day - EntryDay(loc.tradingDays, position) >= 10]_vars

====
